---- MODULE Spec2Model ----
(***************************************************************************)
(* A model of the Catalyst Center automation client                        *)
(* (native-api-simple-example/native_api_simple.py and                     *)
(* native_api_implementation.py): the task poller wait_for_task, the       *)
(* lookups, the create/delete operations, the drivers and the command-line *)
(* process.                                                                *)
(*                                                                         *)
(* Each part has a specification of its own over the same variables:       *)
(*   Spec        the task poller (wait_for_task)                           *)
(*   SpecLookup  get_site_by_name_and_parent on arbitrary site listings    *)
(*   SpecPool    sequences of create_ip_pool calls against the controller  *)
(*   SpecCreate  the creation drivers: create_infrastructure, and main of  *)
(*               native_api_implementation.py                              *)
(*   SpecDelete  the deletion driver delete_infrastructure                 *)
(*   SpecMain    the script run from the command line: main, the driver of *)
(*               the requested action, the exit status                     *)
(*   SpecAuth    sequences of authenticate calls and requests of a client  *)
(*   SpecImplWait  wait_for_task of native_api_implementation.py           *)
(***************************************************************************)
EXTENDS Integers, Sequences, FiniteSets, TLC

VARIABLES
    wt_pc,        \* wait_for_task: "loop" (at the while test, line 106) or "return"
    wt_timeout,   \* the timeout argument, seconds
    wt_elapsed,   \* time.time() - start_time as read at the while test, seconds
    wt_polls,     \* status GETs issued so far (line 108)
    wt_sleeps,    \* time.sleep(check_interval) calls so far
    wt_line,      \* source line of the return statement taken, 0 while looping
    wt_result,    \* "pending" while looping, then "True" or "False"
    wt_last,      \* the answer to the most recent status GET
    cc_sites,     \* the controller's site listing (GET /site), in listing order
    lk_query,     \* the arguments of the last get_site_by_name_and_parent call
    lk_result,    \* what that call returned
    cc_pools,     \* the controller's global pools (GET /global-pool), in listing order
    cc_res,       \* the controller's subnet reservations, in listing order
    history,      \* the calls made so far.  SpecPool: each with the listing before
                  \* it, the controller's answer, the requests and the result;
                  \* the drivers: each with the kind of its result
    drv,          \* the driver running: "create_infrastructure", "main" (of
                  \* native_api_implementation.py), "delete_infrastructure",
                  \* "check_infrastructure" or "none"
    drv_pc,       \* the position in the driver's sequence of calls
    drv_status,   \* "running", "returned" or "raised" (an exception left the driver)
    drv_return,   \* the driver's return value once it has returned
    locals,       \* main: the site ids held in local variables
    op_trace,     \* the requests of the driver's last call
    faults,       \* the calls so far that the controller answered abnormally
    op_ans,       \* how the controller answered the driver's last call
    proc,         \* the command-line process: "none" (the driver is called as a
                  \* function), "start", "running" or "exited"
    exit_code,    \* the status the process exited with, -1 before it exits
    token,        \* the client's self.token: the serial number of the token the
                  \* controller issued, 0 for None
    header,       \* the client's headers["X-Auth-Token"], 0 when the header is
                  \* not set
    iw_pc,        \* wait_for_task of native_api_implementation.py: "loop" (at
                  \* the for statement, line 175), "done" or "idle"
    iw_max_attempts,  \* its max_attempts argument
    iw_polls,     \* status GETs issued so far (line 176)
    iw_sleeps,    \* time.sleep(2) calls so far (line 183)
    iw_result,    \* "pending" while looping, then "task" (returned) or the
                  \* exception raised
    iw_last       \* the answer to the most recent status GET

wt_vars == <<wt_pc, wt_timeout, wt_elapsed, wt_polls, wt_sleeps, wt_line, wt_result, wt_last>>

lk_vars == <<lk_query, lk_result>>

cc_vars == <<cc_sites, cc_pools, cc_res>>

drv_vars == <<drv, drv_pc, drv_status, drv_return, locals, op_trace, faults, op_ans>>

proc_vars == <<proc, exit_code>>

tok_vars == <<token, header>>

iw_vars == <<iw_pc, iw_max_attempts, iw_polls, iw_sleeps, iw_result, iw_last>>

vars == <<wt_vars, cc_vars, lk_vars, history, drv_vars, proc_vars, tok_vars, iw_vars>>

(***************************************************************************)
(* Bounds of the model.                                                    *)
(***************************************************************************)
\* The largest timeout argument tried, seconds.
MaxTimeout == 30
\* The longest time one status request takes, seconds.
MaxLatency == 10
\* Granularity of the timeouts and latencies tried, seconds.
Tick == 5

\* The longest site listing tried by SpecLookup.
MaxSites == 3
\* The number of create_ip_pool calls made in a row by SpecPool.
MaxCalls == 2
\* The number of calls of one driver run that the controller may answer
\* abnormally.
MaxFaults == 1

Timeouts == {t \in 0..MaxTimeout : t % Tick = 0}
Latencies == {l \in 0..MaxLatency : l % Tick = 0}

(***************************************************************************)
(* JSON values as the Python code sees them.  A field that is missing and  *)
(* a field that is null both read as None through dict.get, so Absent      *)
(* stands for both.  Strings stand for themselves.                         *)
(***************************************************************************)
Absent == "<absent>"
JFalse == "<False>"
JTrue == "<True>"
JZero == "<0>"
NotDict == "<not-a-dict>"

\* Python truthiness of a JSON value (if x:).
Truthy(v) == v \notin {Absent, JFalse, JZero, ""}

\* Python x == False: True for False and for 0.
PyEqFalse(v) == v \in {JFalse, JZero}

(***************************************************************************)
(* The body of a 200 answer of the status endpoint.  sync is the status    *)
(* field of bapiSyncResponseJson: NotDict when that field is not an        *)
(* object, Absent when it is missing or has no status.                     *)
(***************************************************************************)
TaskData ==
    [status : {Absent, "SUCCESS", "FAILURE", "FAILED", "IN_PROGRESS"},
     bapiError : {Absent, "", "NCIP10001"},
     sync : {NotDict, Absent, "false", JFalse, "true", JZero},
     isError : {Absent, JFalse, JTrue},
     endTime : {Absent, "1700000000"},
     endTimeEpoch : {Absent, JZero, "1700000000"}]

NoBody ==
    [status |-> Absent, bapiError |-> Absent, sync |-> Absent,
     isError |-> Absent, endTime |-> Absent, endTimeEpoch |-> Absent]

(***************************************************************************)
(* What requests.get gives the poller: an exception (Timeout,              *)
(* ConnectionError) or an HTTP answer; jsonOk is FALSE when response.json()*)
(* raises or does not yield an object.                                     *)
(***************************************************************************)
Responses ==
    [exc : {"Timeout", "ConnectionError"}, code : {0}, jsonOk : {FALSE}, body : {NoBody}]
    \cup [exc : {"none"}, code : {404, 401, 500}, jsonOk : {FALSE}, body : {NoBody}]
    \cup [exc : {"none"}, code : {200}, jsonOk : {FALSE}, body : {NoBody}]
    \cup [exc : {"none"}, code : {200}, jsonOk : {TRUE}, body : TaskData]

NoResponse == [exc |-> "none", code |-> 0, jsonOk |-> FALSE, body |-> NoBody]

\* check_interval, line 104.
check_interval == 10

Return(line, value) == [line |-> line, value |-> value]
Pending == [line |-> 0, value |-> "pending"]

\* TaskVerdict without the bapiError check of lines 124-127.
TaskVerdict_NoBapiError(task_data) ==
    LET status == IF task_data.status = Absent THEN "" ELSE task_data.status
    IN  IF status = "SUCCESS"
        THEN IF /\ task_data.sync # NotDict
                /\ (task_data.sync = "false" \/ PyEqFalse(task_data.sync))
             THEN Return(136, "False")
             ELSE Return(138, "True")
        ELSE IF status \in {"FAILURE", "FAILED"}
        THEN Return(142, "False")
        ELSE IF Truthy(task_data.isError)
        THEN Return(148, "False")
        ELSE IF Truthy(task_data.endTime) \/ Truthy(task_data.endTimeEpoch)
        THEN Return(154, "True")
        ELSE Pending

\* TaskVerdict without the bapiSyncResponseJson check of lines 130-136.
TaskVerdict_NoSync(task_data) ==
    LET status == IF task_data.status = Absent THEN "" ELSE task_data.status
    IN  IF status = "SUCCESS"
        THEN IF Truthy(task_data.bapiError)
             THEN Return(127, "False")
             ELSE Return(138, "True")
        ELSE IF status \in {"FAILURE", "FAILED"}
        THEN Return(142, "False")
        ELSE IF Truthy(task_data.isError)
        THEN Return(148, "False")
        ELSE IF Truthy(task_data.endTime) \/ Truthy(task_data.endTimeEpoch)
        THEN Return(154, "True")
        ELSE Pending

\* TaskVerdict with the isError flag tested ahead of the status field.
TaskVerdict_IsErrorFirst(task_data) ==
    LET status == IF task_data.status = Absent THEN "" ELSE task_data.status
    IN  IF Truthy(task_data.isError)
        THEN Return(148, "False")
        ELSE IF status = "SUCCESS"
        THEN IF Truthy(task_data.bapiError)
             THEN Return(127, "False")
             ELSE IF /\ task_data.sync # NotDict
                     /\ (task_data.sync = "false" \/ PyEqFalse(task_data.sync))
                  THEN Return(136, "False")
                  ELSE Return(138, "True")
        ELSE IF status \in {"FAILURE", "FAILED"}
        THEN Return(142, "False")
        ELSE IF Truthy(task_data.endTime) \/ Truthy(task_data.endTimeEpoch)
        THEN Return(154, "True")
        ELSE Pending

(***************************************************************************)
(* Lines 119-162: the decision on the body of a 200 answer.  The result    *)
(* names the return statement taken, or Pending when the code falls        *)
(* through to the sleep of line 162.                                       *)
(***************************************************************************)
TaskVerdict(task_data) ==
    LET status == IF task_data.status = Absent THEN "" ELSE task_data.status
    IN  IF status = "SUCCESS"
        THEN IF Truthy(task_data.bapiError)
             THEN Return(127, "False")
             ELSE IF /\ task_data.sync # NotDict
                     /\ (task_data.sync = "false" \/ PyEqFalse(task_data.sync))
                  THEN Return(136, "False")
                  ELSE Return(138, "True")
        ELSE IF status \in {"FAILURE", "FAILED"}
        THEN Return(142, "False")
        ELSE IF Truthy(task_data.isError)
        THEN Return(148, "False")
        ELSE IF Truthy(task_data.endTime) \/ Truthy(task_data.endTimeEpoch)
        THEN IF status = "SUCCESS" \/ ~Truthy(task_data.isError)
             THEN Return(154, "True")
             ELSE Return(157, "False")
        ELSE Pending

\* PollStep with a 404 treated like any other unexpected status (sleep, retry).
PollStep_404Retry(resp) ==
    IF resp.exc # "none"
    THEN Pending
    ELSE IF resp.code = 200
    THEN IF resp.jsonOk
         THEN TaskVerdict(resp.body)
         ELSE Pending
    ELSE Pending

\* PollStep with an unexpected status code reported as a failure of the task.
PollStep_ErrorFails(resp) ==
    IF resp.exc # "none"
    THEN Pending
    ELSE IF resp.code = 404
    THEN Return(113, "True")
    ELSE IF resp.code = 200
    THEN IF resp.jsonOk
         THEN TaskVerdict(resp.body)
         ELSE Pending
    ELSE Return(166, "False")

(***************************************************************************)
(* Lines 107-177: one pass of the loop body on the answer resp.  Pending   *)
(* means the pass ended in time.sleep(check_interval).                     *)
(***************************************************************************)
PollStep(resp) ==
    IF resp.exc # "none"
    THEN Pending                          \* lines 169-174
    ELSE IF resp.code = 404
    THEN Return(113, "True")
    ELSE IF resp.code = 200
    THEN IF resp.jsonOk
         THEN TaskVerdict(resp.body)
         ELSE Pending                     \* except Exception, lines 175-177
    ELSE Pending                          \* lines 164-167

\* Poll with the while test written <= instead of <.
Poll_LoopTestLE ==
    /\ wt_pc = "loop"
    /\ wt_elapsed <= wt_timeout
    /\ \E resp \in Responses :
         LET r == PollStep(resp)
         IN  /\ wt_polls' = wt_polls + 1
             /\ wt_last' = resp
             /\ wt_line' = r.line
             /\ wt_result' = r.value
             /\ IF r = Pending
                THEN /\ wt_pc' = "loop"
                     /\ wt_sleeps' = wt_sleeps + 1
                     /\ \E lat \in Latencies :
                          wt_elapsed' = wt_elapsed + lat + check_interval
                ELSE /\ wt_pc' = "return"
                     /\ UNCHANGED <<wt_sleeps, wt_elapsed>>
    /\ UNCHANGED wt_timeout

\* Lines 106-177: the while test passes, one status GET and its handling.
Poll ==
    /\ wt_pc = "loop"
    /\ wt_elapsed < wt_timeout
    /\ \E resp \in Responses :
         LET r == PollStep(resp)
         IN  /\ wt_polls' = wt_polls + 1
             /\ wt_last' = resp
             /\ wt_line' = r.line
             /\ wt_result' = r.value
             /\ IF r = Pending
                THEN /\ wt_pc' = "loop"
                     /\ wt_sleeps' = wt_sleeps + 1
                     /\ \E lat \in Latencies :
                          wt_elapsed' = wt_elapsed + lat + check_interval
                ELSE /\ wt_pc' = "return"
                     /\ UNCHANGED <<wt_sleeps, wt_elapsed>>
    /\ UNCHANGED wt_timeout

\* Deadline reporting the timeout as a failure.
Deadline_Fails ==
    /\ wt_pc = "loop"
    /\ ~(wt_elapsed < wt_timeout)
    /\ wt_pc' = "return"
    /\ wt_line' = 182
    /\ wt_result' = "False"
    /\ UNCHANGED <<wt_timeout, wt_elapsed, wt_polls, wt_sleeps, wt_last>>

\* Lines 106, 179-182: the while test fails.
Deadline ==
    /\ wt_pc = "loop"
    /\ ~(wt_elapsed < wt_timeout)
    /\ wt_pc' = "return"
    /\ wt_line' = 182
    /\ wt_result' = "True"
    /\ UNCHANGED <<wt_timeout, wt_elapsed, wt_polls, wt_sleeps, wt_last>>

\* Lines 96-104: the call, up to the first while test.
WaitInit ==
    /\ wt_pc = "loop"
    /\ wt_timeout \in Timeouts
    /\ wt_elapsed = 0
    /\ wt_polls = 0
    /\ wt_sleeps = 0
    /\ wt_line = 0
    /\ wt_result = "pending"
    /\ wt_last = NoResponse

(***************************************************************************)
(* wait_for_task of native_api_implementation.py (lines 172-184).  What    *)
(* one status GET gives it:                                                *)
(*   get       "ok", or "exc" when requests.get or response.json() raises  *)
(*   response  the "response" field of the body: "dict", NotDict (a list,  *)
(*             a string, null) or Absent (no such field)                   *)
(*   isError   the task's isError field, Absent when the task has none     *)
(*   endTime   the task's endTime field                                    *)
(***************************************************************************)
ImplTask(get, response, isError, endTime) ==
    [get |-> get, response |-> response, isError |-> isError, endTime |-> endTime]

NoImplTask == ImplTask("ok", Absent, Absent, Absent)

ImplTasks ==
    {ImplTask("exc", Absent, Absent, Absent),
     ImplTask("ok", Absent, Absent, Absent),
     ImplTask("ok", NotDict, Absent, Absent)}
    \cup {ImplTask("ok", "dict", e, t) :
              e \in {Absent, JFalse, JTrue}, t \in {Absent, JZero, "1700000000"}}

\* A poll that reads isError with task.get("isError").
impl_poll_GetIsError(task) ==
    IF task.get = "exc" THEN "RequestException"
    ELSE IF task.response = Absent THEN "KeyError"
    ELSE IF task.response = NotDict THEN "TypeError"
    ELSE IF Truthy(task.isError) THEN "Exception"
    ELSE IF Truthy(task.endTime) THEN "task"
    ELSE "sleep"

\* Lines 176-183: one pass of the for loop.  task["isError"] is a subscript:
\* it raises KeyError when the task has no isError field.
impl_poll(task) ==
    IF task.get = "exc" THEN "RequestException"                     \* line 176
    ELSE IF task.response = Absent THEN "KeyError"                  \* line 177
    ELSE IF task.response = NotDict THEN "TypeError"                \* line 178
    ELSE IF task.isError = Absent THEN "KeyError"                   \* line 178
    ELSE IF Truthy(task.isError) THEN "Exception"                   \* lines 178-179
    ELSE IF Truthy(task.endTime) THEN "task"                        \* lines 180-181
    ELSE "sleep"                                                    \* line 183

\* Line 172.
default_max_attempts == 30

\* No wait_for_task call of native_api_implementation.py is in progress.
ImplWaitIdle ==
    /\ iw_pc = "idle"
    /\ iw_max_attempts = 0
    /\ iw_polls = 0
    /\ iw_sleeps = 0
    /\ iw_result = "pending"
    /\ iw_last = NoImplTask

\* No wait_for_task call is in progress.
WaitIdle ==
    /\ ImplWaitIdle
    /\ wt_pc = "idle"
    /\ wt_timeout = 0
    /\ wt_elapsed = 0
    /\ wt_polls = 0
    /\ wt_sleeps = 0
    /\ wt_line = 0
    /\ wt_result = "pending"
    /\ wt_last = NoResponse

(***************************************************************************)
(* Strings that the code splits or joins are sequences of tokens: a token  *)
(* is the separator "/" or a piece of text without one (a site name, a     *)
(* dotted address, a number).  A plain name is a one-token string.         *)
(***************************************************************************)
Str(name) == <<name>>

\* Python's s.split(sep): the pieces between the separators, empty ones kept.
RECURSIVE Split(_, _)
Split(s, sep) ==
    IF \A i \in 1..Len(s) : s[i] # sep
    THEN <<s>>
    ELSE LET i == CHOOSE k \in 1..Len(s) :
                      s[k] = sep /\ \A j \in 1..(k - 1) : s[j] # sep
         IN  <<SubSeq(s, 1, i - 1)>> \o Split(SubSeq(s, i + 1, Len(s)), sep)

\* The path "a/b/c" of the names <<a, b, c>>.
RECURSIVE PathStr(_)
PathStr(names) ==
    IF Len(names) = 0 THEN <<>>
    ELSE IF Len(names) = 1 THEN <<names[1]>>
    ELSE <<names[1], "/">> \o PathStr(Tail(names))

\* Python's None.
None == [isNone |-> TRUE]

(***************************************************************************)
(* A site as the controller lists it.  parents is the chain of ancestors   *)
(* the controller holds for it, root first; the listing gives it as the    *)
(* string siteNameHierarchy.  A listed site may lack that field: the code  *)
(* reads it with a default of '', so the empty string stands for both.     *)
(***************************************************************************)
Site(name, parents) ==
    [name |-> name, parents |-> parents,
     siteNameHierarchy |-> PathStr(parents \o <<name>>)]

SiteNoHierarchy(name, parents) ==
    [name |-> name, parents |-> parents, siteNameHierarchy |-> <<>>]

GlobalSite == Site("Global", <<>>)

\* Lines 199-207: the first listed site with that name.
get_site_by_name(sites, site_name) ==
    IF \E i \in 1..Len(sites) : sites[i].name = site_name
    THEN sites[CHOOSE i \in 1..Len(sites) :
                   /\ sites[i].name = site_name
                   /\ \A j \in 1..(i - 1) : sites[j].name # site_name]
    ELSE None

\* Lines 218-223: the test on one listed site.
UnderParent(site, parent_name) ==
    LET hierarchy == site.siteNameHierarchy
        parts == Split(hierarchy, "/")
    IN  Len(parts) >= 2 /\ parts[Len(parts) - 1] = parent_name

\* get_site_by_name_and_parent without the parent test (get_site_by_name).
get_site_by_name_and_parent_AnyParent(sites, site_name, parent_name) ==
    get_site_by_name(sites, site_name)

\* Lines 209-226: the first listed site with that name under that parent.
get_site_by_name_and_parent(sites, site_name, parent_name) ==
    LET Match(i) == sites[i].name = site_name /\ UnderParent(sites[i], parent_name)
    IN  IF \E i \in 1..Len(sites) : Match(i)
        THEN sites[CHOOSE i \in 1..Len(sites) :
                       Match(i) /\ \A j \in 1..(i - 1) : ~Match(j)]
        ELSE None

(***************************************************************************)
(* SpecLookup: get_site_by_name_and_parent applied to listings of up to    *)
(* MaxSites sites drawn from the demo topology's floors and buildings.     *)
(***************************************************************************)
SunsetPath == <<"Global", "United States", "Golden Hills Campus", "Sunset Tower">>
WindyPath == <<"Global", "United States", "Lakefront Tower", "Windy City Plaza">>

SiteUniverse ==
    {GlobalSite,
     Site("Sunset Tower", SubSeq(SunsetPath, 1, 3)),
     Site("Windy City Plaza", SubSeq(WindyPath, 1, 3)),
     Site("FLOOR_1", SunsetPath),
     Site("FLOOR_2", SunsetPath),
     Site("FLOOR_1", WindyPath),
     Site("FLOOR_2", WindyPath),
     Site("FLOOR_1", <<"Global">>),
     Site("FLOOR_1", <<>>),
     SiteNoHierarchy("FLOOR_1", WindyPath)}

RECURSIVE Listings(_)
Listings(n) ==
    IF n = 0 THEN {<<>>}
    ELSE LET shorter == Listings(n - 1)
         IN  shorter \cup
             {Append(l, x) : l \in {m \in shorter : Len(m) = n - 1}, x \in SiteUniverse}

QueryNames == {"FLOOR_1", "FLOOR_2", "Sunset Tower"}

\* Parents as a caller may give them: a name, or a full path as the driver does.
QueryParents ==
    {Str("Sunset Tower"), Str("Windy City Plaza"), Str("Global"),
     Str("Golden Hills Campus"), PathStr(SunsetPath), <<>>}

NoQuery == [site_name |-> "", parent_name |-> <<>>]

\* No call has been answered yet.
NoAnswer == [none |-> TRUE]

\* Lines 80-85: the client as constructed, with no token and no
\* X-Auth-Token header.
NoToken == 0
Client(tok, hdr) == [token |-> tok, header |-> hdr]
NewClient == Client(NoToken, NoToken)

(***************************************************************************)
(* How the controller answers one authenticate call:                       *)
(*   how     "ok" (200 with a Token field), "http_error" (raise_for_status *)
(*           raises), "no_token" (200 whose body has no Token field, the   *)
(*           subscript raises KeyError) or "exc" (the POST itself raises)  *)
(*   issued  the token of the answer, NoToken when there is none           *)
(***************************************************************************)
AuthAnswer(how, issued) == [how |-> how, issued |-> issued]

\* A client that sets the header only when it has none yet.
store_token_KeepsHeader(client, ans) ==
    IF ans.how = "ok"
    THEN Client(ans.issued, IF client.header = NoToken THEN ans.issued ELSE client.header)
    ELSE client

\* Lines 186-195 (lines 25-32 of native_api_implementation.py): the client
\* after an authenticate call.  A failing call raises before the
\* assignments; a successful one assigns the token of the answer to
\* self.token and then self.token to headers["X-Auth-Token"].
store_token(client, ans) ==
    IF ans.how = "ok"
    THEN Client(ans.issued, ans.issued)
    ELSE client

\* The client after an authenticate call of a driver: the controller issues
\* its tokens in series, the next one at each success.
AfterAuthenticate(client, ok) ==
    store_token(client, IF ok THEN AuthAnswer("ok", client.token + 1)
                        ELSE AuthAnswer("http_error", NoToken))

\* The client after the authenticate calls whose outcomes are oks, in order.
RECURSIVE AfterAuthentications(_, _)
AfterAuthentications(client, oks) ==
    IF oks = <<>> THEN client
    ELSE AfterAuthentications(AfterAuthenticate(client, Head(oks)), Tail(oks))

\* The client has authenticated once.
Authenticated == token = 1 /\ header = 1

\* The operations are called as functions, outside a command-line process.
ProcIdle ==
    /\ proc = "none"
    /\ exit_code = -1

\* No driver is running.
DriverIdle ==
    /\ drv = "none"
    /\ drv_pc = 0
    /\ drv_status = "returned"
    /\ drv_return = "None"
    /\ locals = <<>>
    /\ op_trace = <<>>
    /\ faults = 0
    /\ op_ans = NoAnswer
    /\ ProcIdle
    /\ token = NewClient.token
    /\ header = NewClient.header

LookupIdle ==
    /\ lk_query = NoQuery
    /\ lk_result = None

LookupCall ==
    /\ \E site_name \in QueryNames, parent_name \in QueryParents :
         /\ lk_query' = [site_name |-> site_name, parent_name |-> parent_name]
         /\ lk_result' = get_site_by_name_and_parent(cc_sites, site_name, parent_name)
    /\ UNCHANGED <<wt_vars, iw_vars, cc_vars, history, drv_vars, proc_vars, tok_vars>>

Init ==
    /\ WaitInit
    /\ ImplWaitIdle
    /\ cc_sites = <<GlobalSite>>
    /\ cc_pools = <<>>
    /\ cc_res = <<>>
    /\ LookupIdle
    /\ DriverIdle
    /\ history = <<>>

Next ==
    \/ Poll /\ UNCHANGED <<cc_vars, lk_vars, history, drv_vars, proc_vars, tok_vars, iw_vars>>
    \/ Deadline /\ UNCHANGED <<cc_vars, lk_vars, history, drv_vars, proc_vars, tok_vars, iw_vars>>

Spec == Init /\ [][Next]_vars

InitLookup ==
    /\ WaitIdle
    /\ cc_sites \in Listings(MaxSites)
    /\ cc_pools = <<>>
    /\ cc_res = <<>>
    /\ LookupIdle
    /\ DriverIdle
    /\ history = <<>>

NextLookup == LookupCall

SpecLookup == InitLookup /\ [][NextLookup]_vars

(***************************************************************************)
(* The requests and calls an operation makes, in order.  arg is the name   *)
(* or id in the URL, t the seconds of a wait_for_task timeout or of a      *)
(* sleep, payload the JSON sent.                                           *)
(***************************************************************************)
NoPayload == [type |-> "none"]
Ev(ev, what, arg, t, payload) ==
    [ev |-> ev, what |-> what, arg |-> arg, t |-> t, payload |-> payload]
GetPools == Ev("GET", "global-pool", <<>>, 0, NoPayload)
GetSites == Ev("GET", "site", <<>>, 0, NoPayload)
GetStatus == Ev("GET", "status", <<>>, 0, NoPayload)
PostPool(payload) == Ev("POST", "global-pool", <<>>, 0, payload)
WaitForTask(timeout) == Ev("wait_for_task", "status", <<>>, timeout, NoPayload)
\* time.sleep: the time slept, in milliseconds.
Sleep(seconds) == Ev("sleep", "", <<>>, seconds * 1000, NoPayload)
SleepHalf == Ev("sleep", "", <<>>, 500, NoPayload)

(***************************************************************************)
(* How the controller behaves during one operation:                        *)
(*   net      "down": the operation's first request raises ConnectionError *)
(*   http     "ok": the mutating request gets the status the code expects; *)
(*            "error": it gets a 4xx/5xx                                   *)
(*   hasId    the answer carries executionId                               *)
(*   hasUrl   the answer carries executionStatusUrl                        *)
(*   taskOk   the task is reported successful (wait_for_task returns True, *)
(*            or the single status GET shows SUCCESS)                      *)
(*   applied  the controller carried the change out                        *)
(***************************************************************************)
Answers ==
    [net : {"down"}, http : {"error"}, hasId : {FALSE}, hasUrl : {FALSE},
     taskOk : {FALSE}, applied : {FALSE}]
    \cup [net : {"up"}, http : {"error"}, hasId : {FALSE}, hasUrl : {FALSE},
          taskOk : {FALSE}, applied : {FALSE}]
    \cup [net : {"up"}, http : {"ok"}, hasId : BOOLEAN, hasUrl : BOOLEAN,
          taskOk : BOOLEAN, applied : BOOLEAN]

\* The controller accepts the request, runs the task and reports it done.
GoodAnswer ==
    [net |-> "up", http |-> "ok", hasId |-> TRUE, hasUrl |-> TRUE,
     taskOk |-> TRUE, applied |-> TRUE]

(***************************************************************************)
(* What an operation did: the value returned (kind "raise": an exception   *)
(* left the operation), the requests it made, the controller afterwards.   *)
(***************************************************************************)
Ret(kind, obj) == [kind |-> kind, obj |-> obj]
Outcome(ret, trace, cc) == [ret |-> ret, trace |-> trace, cc |-> cc]

\* The controller's state as the operations read and change it.
Controller(pools, sites, res) == [pools |-> pools, sites |-> sites, res |-> res]
WithPools(cc, pools) == [cc EXCEPT !.pools = pools]
WithSites(cc, sites) == [cc EXCEPT !.sites = sites]
WithRes(cc, res) == [cc EXCEPT !.res = res]

\* The JSON body of an accepted mutating request.
ResultOf(ans) == [isNone |-> FALSE, executionId |-> ans.hasId, executionStatusUrl |-> ans.hasUrl]

\* Lines 228-236: the first listed pool with that name.
get_global_pool_by_name(pools, pool_name) ==
    IF \E i \in 1..Len(pools) : pools[i].ipPoolName = pool_name
    THEN pools[CHOOSE i \in 1..Len(pools) :
                   /\ pools[i].ipPoolName = pool_name
                   /\ \A j \in 1..(i - 1) : pools[j].ipPoolName # pool_name]
    ELSE None

\* Decimal digits as the characters of a text.
Digits == <<"0", "1", "2", "3", "4", "5", "6", "7", "8", "9">>
DigitValue(c) == (CHOOSE i \in 1..Len(Digits) : Digits[i] = c) - 1

\* Python's int(text) for a text of decimal digits, one token per digit.
RECURSIVE int(_)
int(text) ==
    IF Len(text) = 1 THEN DigitValue(text[1])
    ELSE (10 * int(SubSeq(text, 1, Len(text) - 1))) + DigitValue(text[Len(text)])

\* The decimal text of a natural number.
RECURSIVE str(_)
str(n) ==
    IF n < 10 THEN <<Digits[n + 1]>>
    ELSE str(n \div 10) \o <<Digits[(n % 10) + 1]>>

\* The controller's side of POST /global-pool: the pool it lists afterwards.
PoolFromPayload(payload) ==
    [ipPoolName |-> payload.name,
     ipPoolCidr |-> payload.addressSpace.subnet \o <<"/">>
                        \o str(payload.addressSpace.prefixLength)]

\* The controller adds a pool unless it lists one of that name.
AddPool(cc, pool) ==
    IF get_global_pool_by_name(cc.pools, pool.ipPoolName) # None
    THEN cc ELSE WithPools(cc, Append(cc.pools, pool))

\* The payload of POST /global-pool with the whole CIDR as the subnet.
PoolPayload_WholeCidr(name, cidr) ==
    LET parts == Split(cidr, "/")
    IN  [type |-> "pool", name |-> name, poolType |-> "Generic",
         addressSpace |-> [subnet |-> cidr, prefixLength |-> int(parts[2])]]

\* Lines 270-282: the payload of POST /global-pool.
PoolPayload(name, cidr) ==
    LET parts == Split(cidr, "/")                                     \* line 271
    IN  [type |-> "pool", name |-> name, poolType |-> "Generic",
         addressSpace |-> [subnet |-> parts[1], prefixLength |-> int(parts[2])]]

\* create_ip_pool from the POST on, trusting the task's success without
\* looking the pool up again.
create_ip_pool_post_Unverified(cc, name, cidr, ans, before) ==
    LET payload == PoolPayload(name, cidr)
        posted == before \o <<PostPool(payload)>>
        after == IF ans.applied THEN AddPool(cc, PoolFromPayload(payload)) ELSE cc
    IN  IF ans.http = "error"
        THEN Outcome(Ret("raise", None), posted, cc)
        ELSE IF ans.hasId
        THEN IF ans.taskOk
             THEN Outcome(Ret("verified", PoolFromPayload(payload)),
                          posted \o <<WaitForTask(600), Sleep(5), GetPools>>, after)
             ELSE Outcome(Ret("None", None), posted \o <<WaitForTask(600)>>, after)
        ELSE IF ans.hasUrl
        THEN IF ans.taskOk
             THEN Outcome(Ret("verified", PoolFromPayload(payload)),
                          posted \o <<Sleep(2), GetStatus, Sleep(3), GetPools>>, after)
             ELSE Outcome(Ret("None", None), posted \o <<Sleep(2), GetStatus>>, after)
        ELSE Outcome(Ret("result", ResultOf(ans)), posted, after)

\* Lines 284-335: create_ip_pool from the POST on, the pool not being listed.
create_ip_pool_post(cc, name, cidr, ans, before) ==
    LET payload == PoolPayload(name, cidr)
        posted == before \o <<PostPool(payload)>>
        after == IF ans.applied THEN AddPool(cc, PoolFromPayload(payload)) ELSE cc
        found == get_global_pool_by_name(after.pools, name)
    IN  IF ans.http = "error"
        THEN Outcome(Ret("raise", None), posted, cc)                 \* line 286
        ELSE IF ans.hasId
        THEN IF ans.taskOk
             THEN Outcome(Ret(IF found # None THEN "verified" ELSE "None", found),
                          posted \o <<WaitForTask(600), Sleep(5), GetPools>>,
                          after)                                      \* lines 296-313
             ELSE Outcome(Ret("None", None), posted \o <<WaitForTask(600)>>,
                          after)                                      \* lines 314-316
        ELSE IF ans.hasUrl
        THEN IF ans.taskOk
             THEN Outcome(Ret(IF found # None THEN "verified" ELSE "None", found),
                          posted \o <<Sleep(2), GetStatus, Sleep(3), GetPools>>,
                          after)                                      \* lines 317-327
             ELSE Outcome(Ret("None", None), posted \o <<Sleep(2), GetStatus>>,
                          after)                                      \* lines 328-331
        ELSE Outcome(Ret("result", ResultOf(ans)), posted, after)    \* line 335

\* create_ip_pool without the existence check of lines 265-268.
create_ip_pool_NoExistenceCheck(cc, name, cidr, ans) ==
    create_ip_pool_post(cc, name, cidr, ans, <<>>)

\* Lines 262-335.
create_ip_pool(cc, name, cidr, ans) ==
    LET existing == get_global_pool_by_name(cc.pools, name)
    IN  IF ans.net = "down"
        THEN Outcome(Ret("raise", None), <<GetPools>>, cc)           \* line 231 raises
        ELSE IF existing # None
        THEN Outcome(Ret("existing", existing), <<GetPools>>, cc)
        ELSE create_ip_pool_post(cc, name, cidr, ans, <<GetPools>>)

(***************************************************************************)
(* The demo topology of create_infrastructure (lines 712-808).             *)
(***************************************************************************)
\* The address a.b.c.d and the block a.b.c.d/prefix as strings.
Dotted(a, b, c, d) == <<a, ".", b, ".", c, ".", d>>
Cidr(subnet, prefix) == subnet \o <<"/">> \o prefix

PoolArgs ==
    <<[name |-> "US_CORP", cidr |-> Cidr(Dotted("10", "201", "0", "0"), <<"1", "6">>)],
      [name |-> "US_TECH", cidr |-> Cidr(Dotted("10", "202", "0", "0"), <<"1", "6">>)],
      [name |-> "US_GUEST", cidr |-> Cidr(Dotted("10", "203", "0", "0"), <<"1", "6">>)],
      [name |-> "US_BYOD", cidr |-> Cidr(Dotted("10", "204", "0", "0"), <<"1", "6">>)]>>

PoolOf(i) == PoolFromPayload(PoolPayload(PoolArgs[i].name, PoolArgs[i].cidr))

(***************************************************************************)
(* SpecPool: up to MaxCalls create_ip_pool calls in a row, for the first   *)
(* two pools of the topology, against a controller that may or may not     *)
(* list them beforehand and answers in any way.  An exception ends the     *)
(* sequence.                                                               *)
(***************************************************************************)
PoolCall ==
    /\ Len(history) < MaxCalls
    /\ Len(history) > 0 => history[Len(history)].ret.kind # "raise"
    /\ \E i \in 1..2, ans \in Answers :
         LET o == create_ip_pool(Controller(cc_pools, cc_sites, cc_res),
                                 PoolArgs[i].name, PoolArgs[i].cidr, ans)
         IN  /\ cc_pools' = o.cc.pools
             /\ history' = Append(history,
                    [call |-> [op |-> "create_ip_pool", name |-> PoolArgs[i].name],
                     before |-> cc_pools, ans |-> ans, ret |-> o.ret, trace |-> o.trace])
    /\ UNCHANGED <<wt_vars, iw_vars, cc_sites, cc_res, lk_vars, drv_vars, proc_vars, tok_vars>>

InitPool ==
    /\ WaitIdle
    /\ cc_sites = <<GlobalSite>>
    /\ cc_res = <<>>
    /\ cc_pools \in {<<>>, <<PoolOf(1)>>, <<PoolOf(2), PoolOf(1)>>}
    /\ LookupIdle
    /\ DriverIdle
    /\ history = <<>>

NextPool == PoolCall

SpecPool == InitPool /\ [][NextPool]_vars

(***************************************************************************)
(* Site and reservation creation.                                          *)
(***************************************************************************)
PostSite(payload) == Ev("POST", "site", <<>>, 0, payload)
GetReservations(site_id) == Ev("GET", "reserve-ip-subpool", site_id, 0, NoPayload)
PostReserve(site_id, payload) == Ev("POST", "reserve-ip-subpool", site_id, 0, payload)

\* The names of the path "a/b/c".
ParentsOf(parent_name) ==
    LET parts == Split(parent_name, "/")
    IN  [i \in 1..Len(parts) |-> IF Len(parts[i]) = 1 THEN parts[i][1] ELSE ""]

\* The controller identifies a site by its place in the hierarchy.
SiteId(site) == site.siteNameHierarchy

ListsSite(sites, hierarchy) ==
    \E i \in 1..Len(sites) : sites[i].siteNameHierarchy = hierarchy

\* The controller's side of POST /site: it adds the site under the parent the
\* payload names, unless it lists the site already or does not list the parent.
AddSite(cc, payload) ==
    LET site == Site(payload.name, ParentsOf(payload.parentName))
    IN  IF \/ ListsSite(cc.sites, site.siteNameHierarchy)
           \/ ~ListsSite(cc.sites, payload.parentName)
        THEN cc ELSE WithSites(cc, Append(cc.sites, site))

\* An accepted POST /site whose task is never awaited.
create_site_wait_NoWait(cc, payload, ans, posted, nap) ==
    Outcome(Ret("result", ResultOf(ans)), posted \o <<Sleep(nap)>>,
            IF ans.applied THEN AddSite(cc, payload) ELSE cc)

\* Lines 355-375 (389-419, 452-470): the task of an accepted POST /site.
create_site_wait(cc, payload, ans, posted, nap) ==
    LET after == IF ans.applied THEN AddSite(cc, payload) ELSE cc
    IN  IF ans.hasId
        THEN IF ans.taskOk
             THEN Outcome(Ret("result", ResultOf(ans)),
                          posted \o <<WaitForTask(600), Sleep(nap)>>, after)
             ELSE Outcome(Ret("None", None), posted \o <<WaitForTask(600)>>, after)
        ELSE Outcome(Ret("result", ResultOf(ans)), posted \o <<Sleep(nap)>>, after)

\* Lines 337-375.
create_area(cc, name, parent_name, ans) ==
    LET existing == get_site_by_name(cc.sites, name)
        payload == [type |-> "area", name |-> name, parentName |-> parent_name]
        posted == <<GetSites, PostSite(payload)>>
    IN  IF ans.net = "down" THEN Outcome(Ret("raise", None), <<GetSites>>, cc)
        ELSE IF existing # None THEN Outcome(Ret("existing", existing), <<GetSites>>, cc)
        ELSE IF ans.http = "error" THEN Outcome(Ret("raise", None), posted, cc)
        ELSE create_site_wait(cc, payload, ans, posted, 1)

\* Lines 377-419.
create_building(cc, name, parent_name, latitude, longitude, address, country, ans) ==
    LET existing == get_site_by_name(cc.sites, name)
        payload == [type |-> "building", name |-> name, parentName |-> parent_name,
                    latitude |-> latitude, longitude |-> longitude,
                    address |-> address, country |-> country]
        posted == <<GetSites, PostSite(payload)>>
    IN  IF ans.net = "down" THEN Outcome(Ret("raise", None), <<GetSites>>, cc)
        ELSE IF existing # None THEN Outcome(Ret("existing", existing), <<GetSites>>, cc)
        ELSE IF ans.http = "error" THEN Outcome(Ret("raise", None), posted, cc)
        ELSE create_site_wait(cc, payload, ans, posted, 2)

\* create_floor with raise_for_status in place of the status test of lines
\* 450-453.
create_floor_RaisesForStatus(cc, name, parent_name, floor_number, ans) ==
    LET existing_floor == get_site_by_name_and_parent(cc.sites, name, parent_name)
        payload == [type |-> "floor", name |-> name, parentName |-> parent_name,
                    rfModel |-> "Cubes And Walled Offices", width |-> 100,
                    length |-> 100, height |-> 10, floorNumber |-> floor_number]
        posted == <<GetSites, PostSite(payload)>>
    IN  IF ans.net = "down" THEN Outcome(Ret("raise", None), <<GetSites>>, cc)
        ELSE IF existing_floor # None
        THEN Outcome(Ret("existing", existing_floor), <<GetSites>>, cc)
        ELSE IF ans.http = "error" THEN Outcome(Ret("raise", None), posted, cc)
        ELSE create_site_wait(cc, payload, ans, posted, 1)

\* Lines 421-470.
create_floor(cc, name, parent_name, floor_number, ans) ==
    LET existing_floor == get_site_by_name_and_parent(cc.sites, name, parent_name)
        payload == [type |-> "floor", name |-> name, parentName |-> parent_name,
                    rfModel |-> "Cubes And Walled Offices", width |-> 100,
                    length |-> 100, height |-> 10, floorNumber |-> floor_number]
        posted == <<GetSites, PostSite(payload)>>
    IN  IF ans.net = "down" THEN Outcome(Ret("raise", None), <<GetSites>>, cc)
        ELSE IF existing_floor # None
        THEN Outcome(Ret("existing", existing_floor), <<GetSites>>, cc)
        ELSE IF ans.http = "error" THEN Outcome(Ret("None", None), posted, cc)
        ELSE create_site_wait(cc, payload, ans, posted, 1)

\* Python's s.rsplit(sep, 1)[0]: what precedes the last separator, or all of s.
RSplitHead(s, sep) ==
    IF \A i \in 1..Len(s) : s[i] # sep
    THEN s
    ELSE SubSeq(s, 1, (CHOOSE k \in 1..Len(s) :
                          s[k] = sep /\ \A j \in (k + 1)..Len(s) : s[j] # sep) - 1)

\* Lines 247-258: the first reservation of that name the controller lists for
\* the site.
FindReservation(res, site_id, reservation_name) ==
    LET Match(i) == res[i].siteId = site_id /\ res[i].groupName = reservation_name
    IN  IF \E i \in 1..Len(res) : Match(i)
        THEN res[CHOOSE i \in 1..Len(res) : Match(i) /\ \A j \in 1..(i - 1) : ~Match(j)]
        ELSE None

\* A reservation as the controller lists it.
ListedReservation(site_id, name, subnet, gateway) ==
    [siteId |-> site_id, groupName |-> name, id |-> site_id \o <<"#", name>>,
     ipv4Subnet |-> subnet, ipv4GateWay |-> gateway]

\* The controller's side of POST /reserve-ip-subpool/{site_id}: it adds the
\* reservation unless it lists it already or does not list the site.
AddRes(cc, site_id, payload) ==
    IF \/ FindReservation(cc.res, site_id, payload.name) # None
       \/ ~ListsSite(cc.sites, site_id)
    THEN cc
    ELSE WithRes(cc, Append(cc.res,
             ListedReservation(site_id, payload.name, payload.ipv4Subnet,
                               payload.ipv4GateWay)))

\* An answer of Answers with, for reserve_ip_subpool, how the listing of the
\* site's reservations goes: "ok" (200), or "fail" (another status or an
\* exception, which lines 247-258 take for no reservation).
WithListing(a, list) ==
    [net |-> a.net, http |-> a.http, hasId |-> a.hasId, hasUrl |-> a.hasUrl,
     taskOk |-> a.taskOk, applied |-> a.applied, list |-> list]

ReserveAnswers ==
    {WithListing(a, "ok") : a \in Answers}
    \cup {WithListing(a, "fail") : a \in {b \in Answers : b.net = "up"}}

\* A reservation posted without the check of the parent pool, from the first
\* pool listed when the named one is missing.
reserve_ip_subpool_NoPoolCheck(cc, site_name, reservation_name, parent_pool, subnet, prefix_length, ans) ==
    LET site == get_site_by_name(cc.sites, site_name)
        site_id == SiteId(site)
        existing == IF ans.list = "fail" THEN None
                    ELSE FindReservation(cc.res, site_id, reservation_name)
        gateway == RSplitHead(subnet, ".") \o <<".", "1">>
        named == get_global_pool_by_name(cc.pools, parent_pool)
        parent_cidr == IF named # None THEN named.ipPoolCidr
                       ELSE IF cc.pools # <<>> THEN cc.pools[1].ipPoolCidr
                       ELSE <<>>
        payload == [type |-> "reservation", name |-> reservation_name,
                    rtype |-> "Generic", ipv4GlobalPool |-> parent_cidr,
                    ipv4Prefix |-> TRUE, ipv4PrefixLength |-> prefix_length,
                    ipv4Subnet |-> subnet, ipv4GateWay |-> gateway]
        looked == <<GetSites, GetReservations(site_id), GetSites, GetPools>>
        posted == looked \o <<PostReserve(site_id, payload)>>
    IN  IF ans.net = "down" THEN Outcome(Ret("raise", None), <<GetSites>>, cc)
        ELSE IF site = None
        THEN Outcome(Ret("None", None), <<GetSites, GetSites>>, cc)
        ELSE IF existing # None
        THEN Outcome(Ret("existing", existing),
                     <<GetSites, GetReservations(site_id)>>, cc)
        ELSE IF ans.http = "error" THEN Outcome(Ret("raise", None), posted, cc)
        ELSE Outcome(Ret("result", ResultOf(ans)), posted \o <<Sleep(1)>>,
                     IF ans.applied THEN AddRes(cc, site_id, payload) ELSE cc)

\* Lines 472-542.
reserve_ip_subpool(cc, site_name, reservation_name, parent_pool, subnet, prefix_length, ans) ==
    LET site == get_site_by_name(cc.sites, site_name)
        site_id == SiteId(site)
        existing == IF ans.list = "fail" THEN None
                    ELSE FindReservation(cc.res, site_id, reservation_name)
        gateway == RSplitHead(subnet, ".") \o <<".", "1">>
        parent_pool_obj == get_global_pool_by_name(cc.pools, parent_pool)
        payload == [type |-> "reservation", name |-> reservation_name,
                    rtype |-> "Generic", ipv4GlobalPool |-> parent_pool_obj.ipPoolCidr,
                    ipv4Prefix |-> TRUE, ipv4PrefixLength |-> prefix_length,
                    ipv4Subnet |-> subnet, ipv4GateWay |-> gateway]
        looked == <<GetSites, GetReservations(site_id), GetSites, GetPools>>
        posted == looked \o <<PostReserve(site_id, payload)>>
        after == IF ans.applied THEN AddRes(cc, site_id, payload) ELSE cc
    IN  IF ans.net = "down" THEN Outcome(Ret("raise", None), <<GetSites>>, cc)
        ELSE IF site = None
        THEN Outcome(Ret("None", None), <<GetSites, GetSites>>, cc)  \* lines 243, 483
        ELSE IF existing # None
        THEN Outcome(Ret("existing", existing),
                     <<GetSites, GetReservations(site_id)>>, cc)
        ELSE IF parent_pool_obj = None
        THEN Outcome(Ret("None", None), looked, cc)                  \* line 493
        ELSE IF ans.http = "error" THEN Outcome(Ret("raise", None), posted, cc)
        ELSE IF ans.hasId
        THEN IF ans.taskOk
             THEN Outcome(Ret("result", ResultOf(ans)),
                          posted \o <<WaitForTask(600), Sleep(1)>>, after)
             ELSE Outcome(Ret("None", None), posted \o <<WaitForTask(600)>>, after)
        ELSE IF ans.hasUrl
        THEN IF ans.taskOk
             THEN Outcome(Ret("result", ResultOf(ans)),
                          posted \o <<Sleep(2), GetStatus, Sleep(1)>>, after)
             ELSE Outcome(Ret("None", None), posted \o <<Sleep(2), GetStatus>>, after)
        ELSE Outcome(Ret("result", ResultOf(ans)), posted \o <<Sleep(1)>>, after)

(***************************************************************************)
(* The calls of create_infrastructure (lines 712-808), in program order.   *)
(* native_api_implementation.py's main makes the same calls with the same  *)
(* data (lines 203-516).                                                   *)
(***************************************************************************)
Pools ==
    [i \in 1..Len(PoolArgs) |->
        [op |-> "create_ip_pool", name |-> PoolArgs[i].name, cidr |-> PoolArgs[i].cidr]]

Area(name, parents) ==
    [op |-> "create_area", name |-> name, parent_name |-> PathStr(parents)]

Areas ==
    <<Area("United States", <<"Global">>),
      Area("Golden Hills Campus", <<"Global", "United States">>),
      Area("Lakefront Tower", <<"Global", "United States">>),
      Area("Oceanfront Mansion", <<"Global", "United States">>),
      Area("Desert Oasis Branch", <<"Global", "United States">>)>>

Building(name, area, latitude, longitude, address) ==
    [op |-> "create_building", name |-> name,
     parent_name |-> PathStr(<<"Global", "United States", area>>),
     latitude |-> latitude, longitude |-> longitude,
     address |-> address, country |-> "United States"]

Buildings ==
    <<Building("Sunset Tower", "Golden Hills Campus", "34.099", "-118.366",
               "8358 Sunset Blvd, Los Angeles, CA 90069"),
      Building("Windy City Plaza", "Lakefront Tower", "41.878", "-87.630",
               "233 S Wacker Dr, Chicago, IL 60606"),
      Building("Art Deco Mansion", "Oceanfront Mansion", "25.782", "-80.133",
               "123 Ocean Drive, Miami Beach, FL 33139"),
      Building("Desert Oasis Tower", "Desert Oasis Branch", "33.448", "-112.074",
               "1235 Cactus Ave, Phoenix, AZ 85001")>>

Floor(name, area, building, floor_number) ==
    [op |-> "create_floor", name |-> name,
     parent_name |-> PathStr(<<"Global", "United States", area, building>>),
     floor_number |-> floor_number]

Floors ==
    <<Floor("FLOOR_1", "Golden Hills Campus", "Sunset Tower", 1),
      Floor("FLOOR_2", "Golden Hills Campus", "Sunset Tower", 2),
      Floor("FLOOR_1", "Lakefront Tower", "Windy City Plaza", 1),
      Floor("FLOOR_2", "Lakefront Tower", "Windy City Plaza", 2),
      Floor("FLOOR_1", "Oceanfront Mansion", "Art Deco Mansion", 1),
      Floor("FLOOR_1", "Desert Oasis Branch", "Desert Oasis Tower", 1)>>

Reservation(site_name, name, parent_pool, second, third) ==
    [op |-> "reserve_ip_subpool", site_name |-> site_name, name |-> name,
     parent_pool |-> parent_pool, subnet |-> Dotted("10", second, third, "0"),
     prefix_length |-> 24]

SiteReservations(site_name, prefix, third) ==
    <<Reservation(site_name, prefix \o "_CORP", "US_CORP", "201", third),
      Reservation(site_name, prefix \o "_TECH", "US_TECH", "202", third),
      Reservation(site_name, prefix \o "_GUEST", "US_GUEST", "203", third),
      Reservation(site_name, prefix \o "_BYOD", "US_BYOD", "204", third)>>

Reservations ==
    SiteReservations("Sunset Tower", "ST", "2")
    \o SiteReservations("Windy City Plaza", "WCP", "3")
    \o SiteReservations("Art Deco Mansion", "ADM", "4")
    \o SiteReservations("Desert Oasis Tower", "DOT", "1")

\* The calls in another order: the reservations ahead of the sites.
create_infrastructure_calls_ReservationsFirst ==
    Pools \o Reservations \o Areas \o Buildings \o Floors

create_infrastructure_calls ==
    Pools \o Areas \o Buildings \o Floors \o Reservations

\* One call of the client, by its name and arguments.
Call(cc, item, ans) ==
    CASE item.op = "create_ip_pool" ->
             create_ip_pool(cc, item.name, item.cidr, ans)
      [] item.op = "create_area" ->
             create_area(cc, item.name, item.parent_name, ans)
      [] item.op = "create_building" ->
             create_building(cc, item.name, item.parent_name, item.latitude,
                             item.longitude, item.address, item.country, ans)
      [] item.op = "create_floor" ->
             create_floor(cc, item.name, item.parent_name, item.floor_number, ans)
      [] item.op = "reserve_ip_subpool" ->
             reserve_ip_subpool(cc, item.site_name, item.name, item.parent_pool,
                                item.subnet, item.prefix_length, ans)

\* A controller holding the root site only, and one holding the whole
\* topology, listed in the order of creation.
EmptyController == Controller(<<>>, <<GlobalSite>>, <<>>)

TopologySites ==
    LET items == Areas \o Buildings \o Floors
    IN  <<GlobalSite>>
        \o [i \in 1..Len(items) |-> Site(items[i].name, ParentsOf(items[i].parent_name))]

\* The topology before its reservations are made.
UnreservedController ==
    Controller([i \in 1..Len(PoolArgs) |-> PoolOf(i)], TopologySites, <<>>)

FullController ==
    Controller([i \in 1..Len(PoolArgs) |-> PoolOf(i)],
               TopologySites,
               [i \in 1..Len(Reservations) |->
                   LET r == Reservations[i]
                   IN  ListedReservation(
                           SiteId(get_site_by_name(TopologySites, r.site_name)),
                           r.name, r.subnet, RSplitHead(r.subnet, ".") \o <<".", "1">>)])

(***************************************************************************)
(* The driver create_infrastructure (lines 701-819): the calls one after   *)
(* the other, results ignored; an exception leaves the driver.             *)
(***************************************************************************)
\* An answer other than the normal one counts against MaxFaults.
Cost(ans) == IF ans \in {GoodAnswer, WithListing(GoodAnswer, "ok")} THEN 0 ELSE 1

\* The answers the controller can give to a call.
AnswersFor(item) ==
    IF item.op = "reserve_ip_subpool" THEN ReserveAnswers ELSE Answers

\* What a step of a driver leaves in the driver's own variables: the call
\* item is logged with the kind of its result; an exception ends the driver,
\* the last call of n returns from it.
Advance(item, ans, o, n, value) ==
    /\ history' = Append(history, [call |-> item, ret |-> o.ret.kind])
    /\ op_trace' = o.trace
    /\ op_ans' = ans
    /\ cc_pools' = o.cc.pools
    /\ cc_sites' = o.cc.sites
    /\ cc_res' = o.cc.res
    /\ IF o.ret.kind = "raise"
       THEN drv_status' = "raised" /\ UNCHANGED <<drv_pc, drv_return>>
       ELSE /\ drv_pc' = drv_pc + 1
            /\ IF drv_pc = n
               THEN drv_status' = "returned" /\ drv_return' = value
               ELSE UNCHANGED <<drv_status, drv_return>>

CreateStep ==
    /\ drv = "create_infrastructure"
    /\ drv_status = "running"
    /\ \E ans \in AnswersFor(create_infrastructure_calls[drv_pc]) :
         /\ faults + Cost(ans) <= MaxFaults
         /\ faults' = faults + Cost(ans)
         /\ LET item == create_infrastructure_calls[drv_pc]
            IN  Advance(item, ans, Call(Controller(cc_pools, cc_sites, cc_res), item, ans),
                        Len(create_infrastructure_calls), "None")
    /\ UNCHANGED <<wt_vars, iw_vars, lk_vars, drv, locals, proc_vars, tok_vars>>

(***************************************************************************)
(* native_api_implementation.py: the client's operations post without      *)
(* looking the resource up and return the decoded answer whatever its      *)
(* status; only create_building waits for the task.                        *)
(***************************************************************************)
PostAuth == Ev("POST", "auth/token", <<>>, 0, NoPayload)
WaitForTaskImpl(max_attempts) == Ev("wait_for_task", "task", <<>>, max_attempts, NoPayload)

\* Lines 23-34: the answer must carry "Token".
impl_authenticate(cc, ans) ==
    IF ans.net = "down" \/ ans.http = "error"
    THEN Outcome(Ret("raise", None), <<PostAuth>>, cc)
    ELSE Outcome(Ret("token", None), <<PostAuth>>, cc)

\* Lines 35-48: the id of the first listed site with that name.
impl_get_site_id(cc, site_name, ans) ==
    LET site == get_site_by_name(cc.sites, site_name)
    IN  IF ans.net = "down" \/ ans.http = "error"
        THEN Outcome(Ret("raise", None), <<GetSites>>, cc)
        ELSE IF site = None THEN Outcome(Ret("None", None), <<GetSites>>, cc)
        ELSE Outcome(Ret("id", [id |-> SiteId(site)]), <<GetSites>>, cc)

\* Lines 49-65.
impl_create_ip_pool(cc, pool_data, ans) ==
    LET payload == [type |-> "pool", ipPoolName |-> pool_data.name,
                    ipPoolCidr |-> pool_data.cidr]
        after == IF ans.applied
                 THEN AddPool(cc, [ipPoolName |-> payload.ipPoolName,
                                   ipPoolCidr |-> payload.ipPoolCidr])
                 ELSE cc
    IN  IF ans.net = "down"
        THEN Outcome(Ret("raise", None), <<PostPool(payload)>>, cc)
        ELSE Outcome(Ret("result", ResultOf(ans)), <<PostPool(payload)>>, after)

\* Lines 66-91.  site_id is the text the URL is formatted with.
impl_reserve_ip_pool(cc, site_id, reservation_data, ans) ==
    LET payload == [type |-> "reservation", name |-> reservation_data.name,
                    rtype |-> "Generic",
                    ipv4GlobalPool |-> Str(reservation_data.parent_pool),
                    ipv4Prefix |-> TRUE,
                    ipv4PrefixLength |-> reservation_data.prefix_length,
                    ipv4Subnet |-> reservation_data.subnet,
                    ipv4GateWay |-> RSplitHead(reservation_data.subnet, ".") \o <<".", "1">>,
                    ipv4DhcpServers |-> <<Dotted("10", "201", "0", "1")>>,
                    ipv4DnsServers |-> <<Dotted("10", "201", "0", "1")>>]
        after == IF ans.applied THEN AddRes(cc, site_id, payload) ELSE cc
    IN  IF ans.net = "down"
        THEN Outcome(Ret("raise", None), <<PostReserve(site_id, payload)>>, cc)
        ELSE Outcome(Ret("result", ResultOf(ans)), <<PostReserve(site_id, payload)>>, after)

\* Lines 92-115: the parent's id is looked up and not used.
impl_create_area(cc, area_data, ans) ==
    LET payload == [type |-> "area", name |-> area_data.name,
                    parentName |-> area_data.parent_name]
        after == IF ans.applied THEN AddSite(cc, payload) ELSE cc
    IN  IF ans.net = "down"
        THEN Outcome(Ret("raise", None), <<GetSites>>, cc)
        ELSE Outcome(Ret("result", ResultOf(ans)), <<GetSites, PostSite(payload)>>, after)

\* Lines 116-145 and 172-184: the answer must carry executionId, and the task
\* must end without error within the attempts.
impl_create_building(cc, building_data, ans) ==
    LET payload == [type |-> "building", name |-> building_data.name,
                    parentName |-> building_data.parent_name,
                    latitude |-> building_data.latitude,
                    longitude |-> building_data.longitude,
                    address |-> building_data.address,
                    country |-> building_data.country]
        after == IF ans.applied THEN AddSite(cc, payload) ELSE cc
    IN  IF ans.net = "down"
        THEN Outcome(Ret("raise", None), <<PostSite(payload)>>, cc)
        ELSE IF ~ans.hasId
        THEN Outcome(Ret("raise", None), <<PostSite(payload)>>, after)
        ELSE IF ~ans.taskOk
        THEN Outcome(Ret("raise", None), <<PostSite(payload), WaitForTaskImpl(30)>>, after)
        ELSE Outcome(Ret("result", ResultOf(ans)),
                     <<PostSite(payload), WaitForTaskImpl(30)>>, after)

\* Lines 146-171.
impl_create_floor(cc, floor_data, ans) ==
    LET payload == [type |-> "floor", name |-> floor_data.name,
                    parentName |-> floor_data.parent_name,
                    rfModel |-> "Cubes And Walled Offices", width |-> 100,
                    length |-> 100, height |-> 10,
                    floorNumber |-> floor_data.floor_number]
        after == IF ans.applied THEN AddSite(cc, payload) ELSE cc
    IN  IF ans.net = "down"
        THEN Outcome(Ret("raise", None), <<PostSite(payload)>>, cc)
        ELSE Outcome(Ret("result", ResultOf(ans)), <<PostSite(payload)>>, after)

\* Lines 365-368: the buildings whose ids main looks up.
SiteIdLookups ==
    <<[op |-> "get_site_id", name |-> "Sunset Tower"],
      [op |-> "get_site_id", name |-> "Windy City Plaza"],
      [op |-> "get_site_id", name |-> "Art Deco Mansion"],
      [op |-> "get_site_id", name |-> "Desert Oasis Tower"]>>

\* Lines 187-518: the calls of main, in program order.
main_calls ==
    <<[op |-> "authenticate"]>> \o Pools \o Areas \o Buildings \o Floors
        \o SiteIdLookups \o Reservations

\* The id main holds for a building, as the URL shows it.
LocalId(locs, site_name) ==
    LET l == locs[CHOOSE i \in 1..Len(locs) : locs[i].name = site_name]
    IN  IF l.found THEN l.id ELSE Str("None")

ImplCall(cc, locs, item, ans) ==
    CASE item.op = "authenticate" -> impl_authenticate(cc, ans)
      [] item.op = "create_ip_pool" -> impl_create_ip_pool(cc, item, ans)
      [] item.op = "create_area" -> impl_create_area(cc, item, ans)
      [] item.op = "create_building" -> impl_create_building(cc, item, ans)
      [] item.op = "create_floor" -> impl_create_floor(cc, item, ans)
      [] item.op = "get_site_id" -> impl_get_site_id(cc, item.name, ans)
      [] item.op = "reserve_ip_subpool" ->
             impl_reserve_ip_pool(cc, LocalId(locs, item.site_name), item, ans)

ImplStep ==
    /\ drv = "main"
    /\ drv_status = "running"
    /\ \E ans \in Answers :
         /\ faults + Cost(ans) <= MaxFaults
         /\ faults' = faults + Cost(ans)
         /\ LET item == main_calls[drv_pc]
                o == ImplCall(Controller(cc_pools, cc_sites, cc_res), locals, item, ans)
            IN  /\ Advance(item, ans, o, Len(main_calls), "None")
                /\ locals' =
                      IF item.op = "get_site_id" /\ o.ret.kind # "raise"
                      THEN Append(locals,
                               [name |-> item.name, found |-> o.ret.kind = "id",
                                id |-> IF o.ret.kind = "id" THEN o.ret.obj.id ELSE <<>>])
                      ELSE locals
                /\ LET client == IF item.op = "authenticate"
                                 THEN AfterAuthenticate(Client(token, header),
                                                        o.ret.kind # "raise")
                                 ELSE Client(token, header)
                   IN  token' = client.token /\ header' = client.header
    /\ UNCHANGED <<wt_vars, iw_vars, lk_vars, drv, proc_vars>>

(***************************************************************************)
(* SpecCreate: either creation driver, run from its first call against a   *)
(* controller that holds nothing or the whole topology and answers up to   *)
(* MaxFaults calls abnormally.                                             *)
(***************************************************************************)
InitCreate ==
    /\ WaitIdle
    /\ LookupIdle
    /\ \E cc \in {EmptyController, FullController} :
         cc_pools = cc.pools /\ cc_sites = cc.sites /\ cc_res = cc.res
    /\ drv \in {"create_infrastructure", "main"}
    /\ drv_pc = 1
    /\ drv_status = "running"
    /\ drv_return = ""
    /\ locals = <<>>
    /\ op_trace = <<>>
    /\ faults = 0
    /\ op_ans = NoAnswer
    /\ ProcIdle
    /\ IF drv = "create_infrastructure"
       THEN Authenticated
       ELSE token = NewClient.token /\ header = NewClient.header
    /\ history = <<>>

NextCreate == CreateStep \/ ImplStep

SpecCreate == InitCreate /\ [][NextCreate]_vars

(***************************************************************************)
(* Deletion.                                                               *)
(***************************************************************************)
DeleteSiteReq(site_id) == Ev("DELETE", "site", site_id, 0, NoPayload)
DeleteReservationReq(reservation_id) ==
    Ev("DELETE", "reserve-ip-subpool", reservation_id, 0, NoPayload)

\* The controller's side of DELETE /site/{id}: it removes the site and its
\* reservations, unless it lists a site below it.
RemoveSite(cc, site_id) ==
    IF \E i \in 1..Len(cc.sites) :
          /\ Len(cc.sites[i].siteNameHierarchy) > Len(site_id)
          /\ SubSeq(cc.sites[i].siteNameHierarchy, 1, Len(site_id) + 1) = site_id \o <<"/">>
    THEN cc
    ELSE [cc EXCEPT !.sites = SelectSeq(cc.sites, LAMBDA s : s.siteNameHierarchy # site_id),
                    !.res = SelectSeq(cc.res, LAMBDA r : r.siteId # site_id)]

\* The controller's side of DELETE /reserve-ip-subpool/{id}.
RemoveRes(cc, reservation_id) ==
    WithRes(cc, SelectSeq(cc.res, LAMBDA r : r.id # reservation_id))

(***************************************************************************)
(* How the controller behaves during one delete_site call:                 *)
(*   net      "down": the site lookup raises                               *)
(*   first    the first DELETE: "ok" (200/202), "401", "error" (another    *)
(*            status) or "exc" (the request raises RequestException)       *)
(*   reauth   the re-authentication after a 401 or an exception: "ok",     *)
(*            "fail_once" (authenticate raises inside the try, succeeds    *)
(*            in the handler) or "fail" (it raises in the handler)         *)
(*   second   the second DELETE, as first                                  *)
(*   hasId, taskOk, applied   as in Answers, for the accepted DELETE       *)
(***************************************************************************)
Accepted == [hasId : BOOLEAN, taskOk : BOOLEAN, applied : BOOLEAN]
Refused == [hasId |-> FALSE, taskOk |-> FALSE, applied |-> FALSE]

SiteDeleteAnswer(net, first, reauth, second, a) ==
    [net |-> net, first |-> first, reauth |-> reauth, second |-> second,
     hasId |-> a.hasId, taskOk |-> a.taskOk, applied |-> a.applied]

SiteDeleteAnswers ==
    {SiteDeleteAnswer("down", "exc", "ok", "exc", Refused)}
    \cup {SiteDeleteAnswer("up", "ok", "ok", "ok", a) : a \in Accepted}
    \cup {SiteDeleteAnswer("up", "error", "ok", "error", Refused)}
    \cup {SiteDeleteAnswer("up", "401", r, "ok", a) :
              r \in {"ok", "fail_once"}, a \in Accepted}
    \cup {SiteDeleteAnswer("up", "401", r, s, Refused) :
              r \in {"ok", "fail_once"}, s \in {"401", "error", "exc"}}
    \cup {SiteDeleteAnswer("up", f, "fail", "exc", Refused) : f \in {"401", "exc"}}
    \cup {SiteDeleteAnswer("up", "exc", "ok", "ok", a) : a \in Accepted}
    \cup {SiteDeleteAnswer("up", "exc", "ok", s, Refused) : s \in {"401", "error", "exc"}}

GoodSiteDelete ==
    SiteDeleteAnswer("up", "ok", "ok", "ok", [hasId |-> TRUE, taskOk |-> TRUE, applied |-> TRUE])

\* An accepted DELETE whose task's failure is not reported.
delete_accepted_IgnoresTask(cc, after, ans, before) ==
    Outcome(Ret("result", ResultOf([hasId |-> ans.hasId, hasUrl |-> ans.hasId])),
            before \o (IF ans.hasId THEN <<WaitForTask(600)>> ELSE <<>>) \o <<SleepHalf>>,
            IF ans.applied THEN after ELSE cc)

\* An accepted DELETE awaited with a timeout of 300 seconds.
delete_accepted_ShortTimeout(cc, after, ans, before) ==
    LET now == IF ans.applied THEN after ELSE cc
    IN  IF ans.hasId
        THEN IF ans.taskOk
             THEN Outcome(Ret("result", ResultOf([hasId |-> TRUE, hasUrl |-> TRUE])),
                          before \o <<WaitForTask(300), SleepHalf>>, now)
             ELSE Outcome(Ret("None", None), before \o <<WaitForTask(300)>>, now)
        ELSE Outcome(Ret("result", ResultOf([hasId |-> FALSE, hasUrl |-> FALSE])),
                     before \o <<SleepHalf>>, now)

\* Lines 570-592: an accepted DELETE; before are the requests made so far,
\* after is the controller once the deletion is carried out.
delete_accepted(cc, after, ans, before) ==
    LET now == IF ans.applied THEN after ELSE cc
    IN  IF ans.hasId
        THEN IF ans.taskOk
             THEN Outcome(Ret("result", ResultOf([hasId |-> TRUE, hasUrl |-> TRUE])),
                          before \o <<WaitForTask(600), SleepHalf>>, now)
             ELSE Outcome(Ret("None", None), before \o <<WaitForTask(600)>>, now)
        ELSE Outcome(Ret("result", ResultOf([hasId |-> FALSE, hasUrl |-> FALSE])),
                     before \o <<SleepHalf>>, now)

\* Lines 548-603.
delete_site(cc, site_name, ans) ==
    LET site == get_site_by_name(cc.sites, site_name)
        site_id == SiteId(site)
        del == DeleteSiteReq(site_id)
        after == RemoveSite(cc, site_id)
        Second(before) ==                                 \* attempt 1
            IF ans.second = "ok"
            THEN delete_accepted(cc, after, ans, before \o <<del>>)
            ELSE Outcome(Ret("None", None), before \o <<del>>, cc)
    IN  IF ans.net = "down" THEN Outcome(Ret("raise", None), <<GetSites>>, cc)
        ELSE IF site = None THEN Outcome(Ret("None", None), <<GetSites>>, cc)
        ELSE CASE ans.first = "ok" ->
                      delete_accepted(cc, after, ans, <<GetSites, del>>)
               [] ans.first = "error" ->
                      Outcome(Ret("None", None), <<GetSites, del>>, cc)
               [] ans.first = "401" ->
                      IF ans.reauth = "ok"
                      THEN Second(<<GetSites, del, PostAuth>>)
                      ELSE IF ans.reauth = "fail_once"
                      THEN Second(<<GetSites, del, PostAuth, PostAuth>>)
                      ELSE Outcome(Ret("raise", None),
                                   <<GetSites, del, PostAuth, PostAuth>>, cc)
               [] ans.first = "exc" ->
                      IF ans.reauth = "fail"
                      THEN Outcome(Ret("raise", None), <<GetSites, del, PostAuth>>, cc)
                      ELSE Second(<<GetSites, del, PostAuth>>)

(***************************************************************************)
(* How the controller behaves during one delete_reservation call:          *)
(*   net    "down": the site lookup raises                                 *)
(*   list   the reservation listing: "ok" (200) or "fail" (another status  *)
(*          or an exception)                                               *)
(*   del    the DELETE: "ok" (200/202), "401", "error" (another status) or *)
(*          "exc"                                                          *)
(***************************************************************************)
ReservationDeleteAnswer(net, list, del, a) ==
    [net |-> net, list |-> list, del |-> del,
     hasId |-> a.hasId, taskOk |-> a.taskOk, applied |-> a.applied]

ReservationDeleteAnswers ==
    {ReservationDeleteAnswer("down", "fail", "exc", Refused),
     ReservationDeleteAnswer("up", "fail", "exc", Refused),
     ReservationDeleteAnswer("up", "ok", "401", Refused),
     ReservationDeleteAnswer("up", "ok", "error", Refused),
     ReservationDeleteAnswer("up", "ok", "exc", Refused)}
    \cup {ReservationDeleteAnswer("up", "ok", "ok", a) : a \in Accepted}

GoodReservationDelete ==
    ReservationDeleteAnswer("up", "ok", "ok",
                            [hasId |-> TRUE, taskOk |-> TRUE, applied |-> TRUE])

\* delete_reservation without the test of lines 630-632: the DELETE is sent
\* for a reservation the listing does not show.
delete_reservation_DeletesUnlisted(cc, site_name, reservation_name, ans) ==
    LET site == get_site_by_name(cc.sites, site_name)
        site_id == SiteId(site)
        listed == <<GetSites, GetReservations(site_id)>>
        res == FindReservation(cc.res, site_id, reservation_name)
        res_id == IF res = None THEN <<>> ELSE res.id
        deleted == listed \o <<DeleteReservationReq(res_id)>>
    IN  IF ans.net = "down" THEN Outcome(Ret("raise", None), <<GetSites>>, cc)
        ELSE IF site = None THEN Outcome(Ret("None", None), <<GetSites>>, cc)
        ELSE IF ans.list = "fail" THEN Outcome(Ret("None", None), listed, cc)
        ELSE IF ans.del = "ok"
        THEN delete_accepted(cc, RemoveRes(cc, res_id), ans, deleted)
        ELSE Outcome(Ret("None", None), deleted, cc)

\* Lines 605-663.
delete_reservation(cc, site_name, reservation_name, ans) ==
    LET site == get_site_by_name(cc.sites, site_name)
        site_id == SiteId(site)
        listed == <<GetSites, GetReservations(site_id)>>
        res == FindReservation(cc.res, site_id, reservation_name)
        deleted == listed \o <<DeleteReservationReq(res.id)>>
    IN  IF ans.net = "down" THEN Outcome(Ret("raise", None), <<GetSites>>, cc)
        ELSE IF site = None THEN Outcome(Ret("None", None), <<GetSites>>, cc)
        ELSE IF ans.list = "fail" THEN Outcome(Ret("None", None), listed, cc)
        ELSE IF res = None THEN Outcome(Ret("None", None), listed, cc)
        ELSE IF ans.del = "ok"
        THEN delete_accepted(cc, RemoveRes(cc, res.id), ans, deleted)
        ELSE Outcome(Ret("None", None), deleted, cc)

DeletePoolReq(pool_id) == Ev("DELETE", "global-pool", pool_id, 0, NoPayload)

\* Lines 665-698; the driver does not call it (lines 946-955 are commented
\* out).  The DELETE is made outside any try, so that an exception of the
\* request leaves the operation.
delete_global_pool(cc, pool_name, ans) ==
    LET pool == get_global_pool_by_name(cc.pools, pool_name)
        deleted == <<GetPools, DeletePoolReq(Str(pool_name))>>
        after == IF ans.applied
                 THEN WithPools(cc, SelectSeq(cc.pools, LAMBDA q : q.ipPoolName # pool_name))
                 ELSE cc
    IN  IF ans.net = "down" THEN Outcome(Ret("raise", None), <<GetPools>>, cc)
        ELSE IF pool = None THEN Outcome(Ret("None", None), <<GetPools>>, cc)
        ELSE IF ans.del = "exc" THEN Outcome(Ret("raise", None), deleted, cc)
        ELSE IF ans.del \in {"401", "error"} THEN Outcome(Ret("None", None), deleted, cc)
        ELSE IF ans.hasId
        THEN IF ans.taskOk
             THEN Outcome(Ret("result", ResultOf([hasId |-> TRUE, hasUrl |-> TRUE])),
                          deleted \o <<WaitForTask(600), Sleep(1)>>, after)
             ELSE Outcome(Ret("None", None), deleted \o <<WaitForTask(600)>>, after)
        ELSE Outcome(Ret("result", ResultOf([hasId |-> FALSE, hasUrl |-> FALSE])),
                     deleted \o <<Sleep(1)>>, after)

\* Lines 184-197.
authenticate(cc, ok) ==
    IF ok THEN Outcome(Ret("token", None), <<PostAuth>>, cc)
    ELSE Outcome(Ret("raise", None), <<PostAuth>>, cc)

(***************************************************************************)
(* The driver delete_infrastructure (lines 822-962), as the sequence of    *)
(* the calls it can make.  The floor loop (lines 890-897) makes six passes *)
(* over FLOOR_1, FLOOR_2; a call of a pass that returns None or raises     *)
(* ends the pass.  Global pools are not deleted (lines 946-955).           *)
(***************************************************************************)
Confirmation == <<[op |-> "input"], [op |-> "authenticate", caught |-> TRUE]>>

Reauthentication == <<[op |-> "authenticate", caught |-> FALSE]>>

ReservationDeletions ==
    LET reservations_by_building ==
            <<[building_name |-> "Sunset Tower",
               reservations |-> <<"ST_CORP", "ST_TECH", "ST_GUEST", "ST_BYOD">>],
              [building_name |-> "Windy City Plaza",
               reservations |-> <<"WCP_CORP", "WCP_TECH", "WCP_GUEST", "WCP_BYOD">>],
              [building_name |-> "Art Deco Mansion",
               reservations |-> <<"ADM_CORP", "ADM_TECH", "ADM_GUEST", "ADM_BYOD">>],
              [building_name |-> "Desert Oasis Tower",
               reservations |-> <<"DOT_CORP", "DOT_TECH", "DOT_GUEST", "DOT_BYOD">>]>>
    IN  [i \in 1..16 |->
            [op |-> "delete_reservation",
             site_name |-> reservations_by_building[((i - 1) \div 4) + 1].building_name,
             name |-> reservations_by_building[((i - 1) \div 4) + 1].reservations[((i - 1) % 4) + 1]]]

\* pass is the pass of the loop the call belongs to, 0 outside the loop.
SiteDeletion(name, pass) == [op |-> "delete_site", name |-> name, pass |-> pass]

\* A floor loop of three passes.
FloorDeletions_ThreePasses ==
    LET floors == <<"FLOOR_1", "FLOOR_2">>
    IN  [i \in 1..6 |-> SiteDeletion(floors[((i - 1) % 2) + 1], ((i - 1) \div 2) + 1)]

\* Lines 884-897: range(6) passes over the two floor names.
FloorDeletions ==
    LET floors == <<"FLOOR_1", "FLOOR_2">>
    IN  [i \in 1..12 |-> SiteDeletion(floors[((i - 1) % 2) + 1], ((i - 1) \div 2) + 1)]

BuildingDeletions ==
    <<SiteDeletion("Sunset Tower", 0), SiteDeletion("Windy City Plaza", 0),
      SiteDeletion("Art Deco Mansion", 0), SiteDeletion("Desert Oasis Tower", 0)>>

AreaDeletions ==
    <<SiteDeletion("Golden Hills Campus", 0), SiteDeletion("Lakefront Tower", 0),
      SiteDeletion("Oceanfront Mansion", 0), SiteDeletion("Desert Oasis Branch", 0),
      SiteDeletion("United States", 0)>>

\* The calls with the pool deletions of lines 950-955 made as well.
delete_infrastructure_calls_WithPools ==
    Confirmation \o ReservationDeletions
        \o Reauthentication \o FloorDeletions
        \o Reauthentication \o BuildingDeletions
        \o Reauthentication \o AreaDeletions
        \o [i \in 1..Len(PoolArgs) |->
               [op |-> "delete_global_pool", name |-> PoolArgs[i].name]]

\* The calls in another order: the buildings ahead of the floors.
delete_infrastructure_calls_BuildingsFirst ==
    Confirmation \o ReservationDeletions
        \o Reauthentication \o BuildingDeletions
        \o Reauthentication \o FloorDeletions
        \o Reauthentication \o AreaDeletions

\* The driver without its calls of authenticate between the phases.
delete_infrastructure_calls_NoReauthentication ==
    Confirmation \o ReservationDeletions \o FloorDeletions
        \o BuildingDeletions \o AreaDeletions

delete_infrastructure_calls ==
    Confirmation \o ReservationDeletions
        \o Reauthentication \o FloorDeletions
        \o Reauthentication \o BuildingDeletions
        \o Reauthentication \o AreaDeletions

\* The outcomes of the authenticate calls made during one call of the driver,
\* in order: the call itself (lines 844, 881, 906, 925), or the calls of
\* delete_site after a first DELETE answered 401 (line 569) or cut by a
\* request error (line 598).
Authentications(item, ans, o) ==
    CASE item.op = "authenticate" -> <<ans.ok>>
      [] item.op = "delete_site" ->
             IF \A i \in 1..Len(o.trace) : o.trace[i].ev # "DELETE"
             THEN <<>>
             ELSE CASE ans.first = "401" /\ ans.reauth = "ok" -> <<TRUE>>
                    [] ans.first = "401" /\ ans.reauth = "fail_once" -> <<FALSE, TRUE>>
                    [] ans.first = "401" /\ ans.reauth = "fail" -> <<FALSE, FALSE>>
                    [] ans.first = "exc" /\ ans.reauth = "ok" -> <<TRUE>>
                    [] ans.first = "exc" /\ ans.reauth = "fail" -> <<FALSE>>
                    [] OTHER -> <<>>
      [] OTHER -> <<>>

\* What the prompt of line 833 can end with: a line typed, or EOFError or
\* KeyboardInterrupt raised by input().
Typed == {"DELETE", "delete", "DELETE ", "", "EOFError", "KeyboardInterrupt"}

\* A confirmation that accepts the word in any case.
Confirmed_AnyCase(typed) == typed \in {"DELETE", "delete"}

\* Lines 834, 838: the deletion goes on only when the line typed is DELETE.
Confirmed(typed) == typed = "DELETE"

\* What one call of the driver can do, with what it costs against MaxFaults.
Try(o, cost, ans) == [o |-> o, cost |-> cost, ans |-> ans]

DeleteOutcomes(cc, item) ==
    CASE item.op = "input" ->
             {Try(Outcome(Ret(typed, None), <<>>, cc), 0, [typed |-> typed]) :
                  typed \in Typed}
      [] item.op = "authenticate" ->
             {Try(authenticate(cc, ok), IF ok THEN 0 ELSE 1, [ok |-> ok]) : ok \in BOOLEAN}
      [] item.op = "delete_reservation" ->
             {Try(delete_reservation(cc, item.site_name, item.name, ans),
                  IF ans = GoodReservationDelete THEN 0 ELSE 1, ans) :
                  ans \in ReservationDeleteAnswers}
      [] item.op = "delete_site" ->
             {Try(delete_site(cc, item.name, ans),
                  IF ans = GoodSiteDelete THEN 0 ELSE 1, ans) : ans \in SiteDeleteAnswers}
      [] item.op = "delete_global_pool" ->
             {Try(delete_global_pool(cc, item.name, ans),
                  IF ans = GoodReservationDelete THEN 0 ELSE 1, ans) :
                  ans \in ReservationDeleteAnswers}

\* Where the driver goes after a call at position pc that ended as kind.
DeleteControl(calls, pc, kind) ==
    LET item == calls[pc]
        Go(next) == IF next > Len(calls)
                    THEN [pc |-> next, status |-> "returned", value |-> "0"]    \* line 962
                    ELSE [pc |-> next, status |-> "running", value |-> ""]
        Return1 == [pc |-> pc, status |-> "returned", value |-> "1"]
        Raise == [pc |-> pc, status |-> "raised", value |-> ""]
        \* the first call after the pass of the floor loop that pc is in
        InPass(n) == calls[n].op = "delete_site" /\ calls[n].pass = item.pass
        NextPass == CHOOSE n \in (pc + 1)..(Len(calls) + 1) :
                        /\ n = Len(calls) + 1 \/ ~InPass(n)
                        /\ \A m \in (pc + 1)..(n - 1) : InPass(m)
    IN  CASE item.op = "input" ->
                 IF Confirmed(kind) THEN Go(pc + 1) ELSE Return1      \* lines 832-839
          [] item.op = "authenticate" ->
                 IF kind # "raise" THEN Go(pc + 1)
                 ELSE IF item.caught THEN Return1 ELSE Raise          \* lines 842-847, 881
          [] item.op = "delete_reservation" ->
                 IF kind = "raise" THEN Raise ELSE Go(pc + 1)
          [] item.op = "delete_site" ->
                 IF item.pass > 0
                 THEN IF kind \in {"None", "raise"} THEN Go(NextPass) ELSE Go(pc + 1)
                 ELSE IF kind = "raise" THEN Raise ELSE Go(pc + 1)
          [] item.op = "delete_global_pool" -> Go(pc + 1)             \* lines 951-955

DeleteStep ==
    /\ drv = "delete_infrastructure"
    /\ drv_status = "running"
    /\ LET item == delete_infrastructure_calls[drv_pc]
       IN  \E try \in DeleteOutcomes(Controller(cc_pools, cc_sites, cc_res), item) :
             LET to == DeleteControl(delete_infrastructure_calls, drv_pc, try.o.ret.kind)
             IN  /\ faults + try.cost <= MaxFaults
                 /\ faults' = faults + try.cost
                 /\ history' = Append(history, [call |-> item, ret |-> try.o.ret.kind])
                 /\ op_trace' = try.o.trace
                 /\ op_ans' = try.ans
                 /\ cc_pools' = try.o.cc.pools
                 /\ cc_sites' = try.o.cc.sites
                 /\ cc_res' = try.o.cc.res
                 /\ drv_pc' = to.pc
                 /\ drv_status' = to.status
                 /\ drv_return' = to.value
                 /\ LET client == AfterAuthentications(Client(token, header),
                                                       Authentications(item, try.ans, try.o))
                    IN  token' = client.token /\ header' = client.header
    /\ UNCHANGED <<wt_vars, iw_vars, lk_vars, drv, locals, proc_vars>>

(***************************************************************************)
(* SpecDelete: delete_infrastructure run from its first statement against  *)
(* a controller that holds the whole topology, the topology without its    *)
(* reservations, or nothing, and answers up to MaxFaults calls abnormally. *)
(***************************************************************************)
InitDelete ==
    /\ WaitIdle
    /\ LookupIdle
    /\ \E cc \in {EmptyController, UnreservedController, FullController} :
         cc_pools = cc.pools /\ cc_sites = cc.sites /\ cc_res = cc.res
    /\ drv = "delete_infrastructure"
    /\ drv_pc = 1
    /\ drv_status = "running"
    /\ drv_return = ""
    /\ locals = <<>>
    /\ op_trace = <<>>
    /\ faults = 0
    /\ op_ans = NoAnswer
    /\ ProcIdle
    /\ Authenticated
    /\ history = <<>>

NextDelete == DeleteStep

SpecDelete == InitDelete /\ [][NextDelete]_vars

(***************************************************************************)
(* check_infrastructure (lines 965-1164): three listings, each in a try     *)
(* block of its own that swallows every exception, then one reservation    *)
(* listing per building, each in an inner try block.  The listings of the  *)
(* model carry no additionalInfo, so the sites are typed by the number of  *)
(* "/" in siteNameHierarchy (lines 1032-1041, 1096-1100).                  *)
(***************************************************************************)
\* Python's s.count('/').
CountSlashes(hierarchy) == Cardinality({i \in 1..Len(hierarchy) : hierarchy[i] = "/"})

\* Lines 1085-1103: the listed sites taken for buildings, in listing order.
RECURSIVE StatusBuildings(_)
StatusBuildings(sites) ==
    IF sites = <<>> THEN <<>>
    ELSE (IF CountSlashes(sites[1].siteNameHierarchy) = 3 THEN <<sites[1]>> ELSE <<>>)
             \o StatusBuildings(Tail(sites))

\* How the controller answers the listings of one status run: each of the
\* three listings is answered or fails (connection error, HTTP error status
\* or a body that is not JSON), and so are the reservation listings.
StatusAnswer(pools, sites, buildings, reservations) ==
    [pools |-> pools, sites |-> sites, buildings |-> buildings,
     reservations |-> reservations]
StatusAnswers ==
    {StatusAnswer(p, s, b, r) : p \in {"ok", "fail"}, s \in {"ok", "fail"},
                                b \in {"ok", "fail"}, r \in {"ok", "fail"}}
GoodStatus == StatusAnswer("ok", "ok", "ok", "ok")

\* The requests of one status run.
StatusRequests(cc, ans) ==
    LET buildings == StatusBuildings(cc.sites)
        listings == [i \in 1..Len(buildings) |-> GetReservations(SiteId(buildings[i]))]
    IN  <<GetPools>>                                                  \* line 978
          \o <<GetSites>>                                             \* line 1007
          \o <<GetSites>>                                             \* line 1087
          \o (IF ans.buildings = "ok" THEN listings ELSE <<>>)        \* line 1120

check_infrastructure_ReturnsFailure(cc, ans) ==
    Outcome(Ret(IF ans = GoodStatus THEN "0" ELSE "1", None), StatusRequests(cc, ans), cc)

check_infrastructure(cc, ans) ==
    Outcome(Ret("0", None), StatusRequests(cc, ans), cc)              \* line 1164

(***************************************************************************)
(* The command-line process (lines 1167-1253): main loads the credentials, *)
(* authenticates and runs the driver of the requested action; the module's *)
(* entry point turns main's return value, or an exception that left it,    *)
(* into the exit status.                                                   *)
(***************************************************************************)
Actions == {"create", "delete", "status"}

DriverOf(action) ==
    CASE action = "create" -> "create_infrastructure"                 \* line 1231
      [] action = "delete" -> "delete_infrastructure"                 \* line 1233
      [] action = "status" -> "check_infrastructure"                  \* line 1235

\* Lines 1201-1235: main up to the call of the driver.
MainStart ==
    /\ proc = "start"
    /\ \E config \in {"loaded", "None"}, ok \in BOOLEAN, action \in Actions :
         IF config = "None"
         THEN /\ proc' = "exited"                                     \* lines 1207-1211
              /\ exit_code' = 1
              /\ op_ans' = [config |-> config]
              /\ UNCHANGED <<history, op_trace, drv, drv_pc, drv_status, drv_return, tok_vars>>
         ELSE LET o == authenticate(Controller(cc_pools, cc_sites, cc_res), ok)
              IN  /\ history' = Append(history,
                         [call |-> [op |-> "authenticate", caught |-> TRUE],
                          ret |-> o.ret.kind])
                  /\ op_trace' = o.trace
                  /\ op_ans' = [ok |-> ok]
                  /\ LET client == AfterAuthenticate(Client(token, header), ok)
                     IN  token' = client.token /\ header' = client.header
                  /\ IF ok
                     THEN /\ proc' = "running"
                          /\ drv' = DriverOf(action)
                          /\ drv_pc' = 1
                          /\ drv_status' = "running"
                          /\ drv_return' = ""
                          /\ UNCHANGED exit_code
                     ELSE /\ proc' = "exited"                         \* lines 1226-1228
                          /\ exit_code' = 1
                          /\ UNCHANGED <<drv, drv_pc, drv_status, drv_return>>
    /\ UNCHANGED <<wt_vars, iw_vars, cc_vars, lk_vars, locals, faults>>

StatusStep ==
    /\ drv = "check_infrastructure"
    /\ drv_status = "running"
    /\ \E ans \in StatusAnswers :
         LET o == check_infrastructure(Controller(cc_pools, cc_sites, cc_res), ans)
         IN  /\ history' = Append(history,
                    [call |-> [op |-> "check_infrastructure"], ret |-> o.ret.kind])
             /\ op_trace' = o.trace
             /\ op_ans' = ans
             /\ cc_pools' = o.cc.pools
             /\ cc_sites' = o.cc.sites
             /\ cc_res' = o.cc.res
             /\ drv_status' = "returned"
             /\ drv_return' = o.ret.kind
    /\ UNCHANGED <<wt_vars, iw_vars, lk_vars, drv, drv_pc, locals, faults, proc_vars, tok_vars>>

\* An entry point without the handlers of lines 1246-1253 that turn an
\* exception into status 1.
ExitStatus_IgnoresException(status, value) ==
    IF value = "1" THEN 1 ELSE 0

\* Lines 1242-1253: sys.exit(exit_code if exit_code else 0), and 1 when an
\* exception left main.
ExitStatus(status, value) ==
    IF status = "raised" THEN 1
    ELSE IF value = "1" THEN 1 ELSE 0

\* An entry point that exits with 0 whatever main did.
MainExit_AlwaysZero ==
    /\ proc = "running"
    /\ drv_status \in {"returned", "raised"}
    /\ proc' = "exited"
    /\ exit_code' = 0
    /\ UNCHANGED <<wt_vars, iw_vars, cc_vars, lk_vars, history, drv_vars, tok_vars>>

MainExit ==
    /\ proc = "running"
    /\ drv_status \in {"returned", "raised"}
    /\ proc' = "exited"
    /\ exit_code' = ExitStatus(drv_status, drv_return)
    /\ UNCHANGED <<wt_vars, iw_vars, cc_vars, lk_vars, history, drv_vars, tok_vars>>

(***************************************************************************)
(* SpecMain: the script run once from the command line with any of its     *)
(* three actions, against a controller that holds the whole topology or    *)
(* nothing and answers up to MaxFaults calls of the driver abnormally.     *)
(***************************************************************************)
InitMain ==
    /\ WaitIdle
    /\ LookupIdle
    /\ \E cc \in {EmptyController, FullController} :
         cc_pools = cc.pools /\ cc_sites = cc.sites /\ cc_res = cc.res
    /\ drv = "none"
    /\ drv_pc = 0
    /\ drv_status = "returned"
    /\ drv_return = "None"
    /\ locals = <<>>
    /\ op_trace = <<>>
    /\ faults = 0
    /\ op_ans = NoAnswer
    /\ proc = "start"
    /\ exit_code = -1
    /\ token = NewClient.token
    /\ header = NewClient.header
    /\ history = <<>>

NextMain == MainStart \/ CreateStep \/ DeleteStep \/ StatusStep \/ MainExit

SpecMain == InitMain /\ [][NextMain]_vars

(***************************************************************************)
(* Properties of the task poller.                                          *)
(***************************************************************************)
\* The last answer is a well-formed 200 answer.
Is200(resp) == resp.exc = "none" /\ resp.code = 200 /\ resp.jsonOk

\* The last answer is a 404.
Is404(resp) == resp.exc = "none" /\ resp.code = 404

\* A success or failure encoding in the body of a 200 answer.
HasVerdictEncoding(b) ==
    \/ b.status \in {"SUCCESS", "FAILURE", "FAILED"}
    \/ Truthy(b.isError)
    \/ Truthy(b.endTime)
    \/ Truthy(b.endTimeEpoch)

\* An explicit failure encoding in the body of a 200 answer (a nested status
\* of 0 compares equal to False in Python).
HasFailureEncoding(b) ==
    \/ b.status = "SUCCESS" /\ Truthy(b.bapiError)
    \/ b.status = "SUCCESS" /\ b.sync \in {"false", JFalse, JZero}
    \/ b.status \in {"FAILURE", "FAILED"}
    \/ Truthy(b.isError)

TerminalResponse(resp) ==
    Is404(resp) \/ (Is200(resp) /\ HasVerdictEncoding(resp.body))

\* A non-200/non-404 status, a request timeout, a connection error, or an
\* exception while reading the body of a 200 answer.
TransientResponse(resp) ==
    \/ resp.exc # "none"
    \/ resp.code \notin {200, 404}
    \/ resp.code = 200 /\ ~resp.jsonOk

\* C1: when wait_for_task returns without having received a terminal answer
\* (a 404, or a 200 with a success or failure encoding), the deadline has
\* passed and the value returned is True, not False.
C1_TimeoutReturnsTrue ==
    (wt_pc = "return" /\ ~TerminalResponse(wt_last))
        => (wt_result = "True" /\ wt_elapsed >= wt_timeout)

C1_Witness ==
    /\ wt_pc = "return"
    /\ wt_line = 182
    /\ wt_polls >= 2
    /\ Is200(wt_last)
    /\ wt_last.body.status = "IN_PROGRESS"
    /\ wt_result = "True"

\* C2: a 200 answer with status SUCCESS and a non-empty bapiError makes
\* wait_for_task return False, whatever the other fields are.
C2_ErrorOverridesSuccess ==
    (/\ wt_polls > 0
     /\ Is200(wt_last)
     /\ wt_last.body.status = "SUCCESS"
     /\ Truthy(wt_last.body.bapiError))
        => (wt_pc = "return" /\ wt_result = "False")

C2_Witness ==
    /\ wt_pc = "return"
    /\ wt_result = "False"
    /\ Is200(wt_last)
    /\ wt_last.body.status = "SUCCESS"
    /\ wt_last.body.bapiError = "NCIP10001"
    /\ wt_last.body.sync = "true"
    /\ wt_last.body.isError = JFalse
    /\ wt_last.body.endTime # Absent

\* C3 as claimed: a 200 answer whose bapiSyncResponseJson status is "false"
\* or False makes wait_for_task return False whatever the outer status is.
C3_SyncFalseAlwaysFails ==
    (/\ wt_polls > 0
     /\ Is200(wt_last)
     /\ wt_last.body.sync \in {"false", JFalse})
        => (wt_pc = "return" /\ wt_result = "False")

\* C3 as amended: a 200 answer with outer status SUCCESS whose
\* bapiSyncResponseJson status is "false" or False makes wait_for_task return
\* False, whether or not an end time or any other field is present.
C3_SyncFalseUnderSuccessFails ==
    (/\ wt_polls > 0
     /\ Is200(wt_last)
     /\ wt_last.body.status = "SUCCESS"
     /\ wt_last.body.sync \in {"false", JFalse})
        => (wt_pc = "return" /\ wt_result = "False")

C3_Witness ==
    /\ wt_pc = "return"
    /\ wt_result = "False"
    /\ wt_line = 136
    /\ Is200(wt_last)
    /\ wt_last.body.status = "SUCCESS"
    /\ wt_last.body.sync = JFalse
    /\ wt_last.body.endTime # Absent

\* C4: when the first status GET is answered 404, wait_for_task has returned
\* True after that one request, without any sleep.
C4_FirstPoll404ReturnsTrue ==
    (wt_polls = 1 /\ Is404(wt_last))
        => (wt_pc = "return" /\ wt_result = "True" /\ wt_sleeps = 0)

C4_Witness ==
    /\ wt_polls = 1
    /\ Is404(wt_last)
    /\ wt_pc = "return"
    /\ wt_line = 113
    /\ wt_timeout = MaxTimeout - (MaxTimeout % Tick)

\* C5 as claimed: a return by timeout comes after exactly timeout/interval
\* status polls.
C5_ExactlyTimeoutOverIntervalPolls ==
    (wt_pc = "return" /\ wt_line = 182)
        => wt_polls * check_interval = wt_timeout

\* C5 as amended: a return by timeout reports success once the deadline has
\* passed, after at least one poll (for a positive timeout) and at most
\* ceil(timeout/interval) polls; the count is ceil(timeout/interval) when the
\* requests take no time.
C5_AtMostCeilPolls ==
    (wt_pc = "return" /\ wt_line = 182)
        => /\ wt_result = "True"
           /\ wt_elapsed >= wt_timeout
           /\ (wt_polls = 0) <=> (wt_timeout <= 0)
           /\ wt_polls >= 1 => (wt_polls - 1) * check_interval < wt_timeout
           /\ wt_elapsed = wt_polls * check_interval
                 => wt_polls * check_interval >= wt_timeout

C5_Witness ==
    /\ wt_pc = "return"
    /\ wt_line = 182
    /\ wt_polls >= 1
    /\ wt_polls * check_interval < wt_timeout

\* C6: an answer that is a non-200/non-404 status, a request timeout, a
\* connection error or an unreadable body never yields False: the poller
\* sleeps one interval per such poll and goes on until the deadline, and
\* False is returned only on a 200 answer with an explicit failure encoding.
C6_TransientErrorsNeverFail ==
    /\ (wt_polls > 0 /\ TransientResponse(wt_last))
          => /\ wt_result # "False"
             /\ wt_sleeps = wt_polls
             /\ wt_pc = "return" => (wt_line = 182 /\ wt_elapsed >= wt_timeout)
    /\ wt_result = "False"
          => (Is200(wt_last) /\ HasFailureEncoding(wt_last.body))

C6_Witness ==
    /\ wt_pc = "return"
    /\ wt_line = 182
    /\ wt_polls >= 2
    /\ wt_last.exc = "ConnectionError"

(***************************************************************************)
(* Properties of the site lookup.                                          *)
(***************************************************************************)
\* C8: get_site_by_name_and_parent(name, parent) returns None or a listed
\* site of that name whose direct parent (the last of its ancestors) is the
\* requested parent; hence never the FLOOR_1 of another building.
C8_LookupNeverReturnsOtherParent ==
    lk_result # None
        => /\ \E i \in 1..Len(cc_sites) : cc_sites[i] = lk_result
           /\ lk_result.name = lk_query.site_name
           /\ Len(lk_result.parents) >= 1
           /\ Str(lk_result.parents[Len(lk_result.parents)]) = lk_query.parent_name

C8_Witness ==
    /\ Len(cc_sites) >= 2
    /\ cc_sites[1] = Site("FLOOR_1", SunsetPath)
    /\ cc_sites[2] = Site("FLOOR_1", WindyPath)
    /\ lk_query = [site_name |-> "FLOOR_1", parent_name |-> Str("Windy City Plaza")]
    /\ lk_result = Site("FLOOR_1", WindyPath)

(***************************************************************************)
(* Properties of create_ip_pool.                                           *)
(***************************************************************************)
Listed(pools, name) == \E i \in 1..Len(pools) : pools[i].ipPoolName = name

IsPoolPost(e) == e.ev = "POST" /\ e.what = "global-pool"

Posts(trace) == Cardinality({i \in 1..Len(trace) : IsPoolPost(trace[i])})

\* Pool lookups made after a creation POST.
ConfirmLookups(trace) ==
    Cardinality({i \in 1..Len(trace) :
        trace[i] = GetPools /\ \E j \in 1..(i - 1) : IsPoolPost(trace[j])})

\* Calls k and k+1 are for the same name, the pool not being listed before call k.
TwiceInSequence(k) ==
    /\ k + 1 <= Len(history)
    /\ history[k].call.name = history[k + 1].call.name
    /\ ~Listed(history[k].before, history[k].call.name)

\* C7 as claimed: two create_ip_pool calls in sequence for the same name make
\* exactly one creation POST, with one confirmation lookup after it, and the
\* second call makes the existence lookup only.
C7_TwoCallsOnePost ==
    \A k \in 1..Len(history) :
        TwiceInSequence(k)
            => /\ Posts(history[k].trace) + Posts(history[k + 1].trace) = 1
               /\ ConfirmLookups(history[k].trace) = 1
               /\ history[k + 1].trace = <<GetPools>>

\* C7 as amended: a call for a pool that is not listed makes exactly one
\* creation POST (when its lookup succeeds), followed by one confirmation
\* lookup exactly when the POST is accepted and the task is reported
\* successful; and when the first of two calls in sequence for the same name
\* leaves the pool listed, the second makes the existence lookup only: no
\* POST, one POST over the two calls.
C7_SecondCallOnlyLooksUp ==
    \A k \in 1..Len(history) :
        LET h == history[k]
        IN  /\ (~Listed(h.before, h.call.name) /\ h.ans.net = "up")
                  => /\ Posts(h.trace) = 1
                     /\ ConfirmLookups(h.trace) =
                            IF h.ans.http = "ok" /\ h.ans.taskOk
                               /\ (h.ans.hasId \/ h.ans.hasUrl)
                            THEN 1 ELSE 0
            /\ (TwiceInSequence(k) /\ Listed(history[k + 1].before, h.call.name))
                  => /\ history[k + 1].trace = <<GetPools>>
                     /\ Posts(h.trace) + Posts(history[k + 1].trace) = 1

C7_Witness ==
    /\ Len(history) >= 2
    /\ TwiceInSequence(1)
    /\ history[1].call.name = "US_CORP"
    /\ history[1].trace =
          <<GetPools, PostPool(PoolPayload("US_CORP", Cidr(Dotted("10", "201", "0", "0"), <<"1", "6">>))),
            WaitForTask(600), Sleep(5), GetPools>>
    /\ history[1].ret = Ret("verified", PoolOf(1))
    /\ history[2].trace = <<GetPools>>
    /\ history[2].ret = Ret("existing", PoolOf(1))

(***************************************************************************)
(* Properties of the deletion driver.                                      *)
(***************************************************************************)
NamesOf(items) == {items[i].name : i \in 1..Len(items)}

\* The place of a deletion call in the order reservations, floors,
\* buildings, areas, by what the call names in the topology created; 0 for a
\* call that deletes nothing.
DeletionRank(call) ==
    CASE call.op = "delete_reservation" -> 1
      [] call.op = "delete_site" /\ call.name \in NamesOf(Floors) -> 2
      [] call.op = "delete_site" /\ call.name \in NamesOf(Buildings) -> 3
      [] call.op = "delete_site" /\ call.name \in NamesOf(Areas) -> 4
      [] OTHER -> 0

Deletions == {i \in 1..Len(history) : DeletionRank(history[i].call) > 0}

\* The deletion of the site of that name was attempted before call j.
DeletionAttemptedBefore(j, name) ==
    \E i \in 1..(j - 1) :
        history[i].call.op = "delete_site" /\ history[i].call.name = name

\* C9: in delete_infrastructure every reservation deletion attempt comes
\* before any floor deletion attempt, every floor attempt before any
\* building attempt, every building attempt before any area attempt, and
\* "United States" after the four other areas, whatever the calls returned;
\* by the first attempt of a kind, every resource of the kinds before it has
\* been attempted.
C9_DeletionOrder ==
    drv = "delete_infrastructure" =>
        /\ \A i, j \in Deletions :
               i < j => DeletionRank(history[i].call) <= DeletionRank(history[j].call)
        /\ \A j \in Deletions :
               /\ DeletionRank(history[j].call) >= 2 =>
                      \A k \in 1..Len(Reservations) :
                          \E i \in 1..(j - 1) :
                              /\ history[i].call.op = "delete_reservation"
                              /\ history[i].call.site_name = Reservations[k].site_name
                              /\ history[i].call.name = Reservations[k].name
               /\ DeletionRank(history[j].call) >= 3 =>
                      \E i \in 1..(j - 1) : DeletionRank(history[i].call) = 2
               /\ DeletionRank(history[j].call) = 4 =>
                      \A b \in NamesOf(Buildings) : DeletionAttemptedBefore(j, b)
               /\ history[j].call.name = "United States" =>
                      \A a \in NamesOf(Areas) \ {"United States"} :
                          DeletionAttemptedBefore(j, a)

\* delete_infrastructure has run to its end against the whole topology; the
\* deletion of a building returned None, so that the building and the areas
\* above it are still listed, and the areas were attempted all the same,
\* "United States" last.
C9_Witness ==
    /\ drv = "delete_infrastructure"
    /\ drv_status = "returned"
    /\ drv_return = "0"
    /\ \E k \in 1..Len(history) :
          /\ history[k].call = SiteDeletion("Sunset Tower", 0)
          /\ history[k].ret = "None"
    /\ \E k \in 1..Len(history) :
          /\ history[k].call.op = "delete_reservation"
          /\ history[k].ret = "result"
    /\ history[Len(history)].call = SiteDeletion("United States", 0)
    /\ get_site_by_name(cc_sites, "Sunset Tower") # None
    /\ get_site_by_name(cc_sites, "United States") # None
    /\ get_site_by_name(cc_sites, "Lakefront Tower") = None

\* Every kind of resource of the topology is gone from the controller.
NothingLeft == cc_sites = <<GlobalSite>> /\ cc_res = <<>> /\ cc_pools = <<>>

\* A request of the trace deletes a global pool.
DeletesPool(trace) ==
    \E i \in 1..Len(trace) : trace[i].ev = "DELETE" /\ trace[i].what = "global-pool"

\* C11 as claimed: delete_infrastructure tears down every kind of resource
\* create_infrastructure provisions, global pools included: after a run to
\* the end in which every call was answered normally, nothing is left.
C11_TearsDownEveryKind ==
    (drv = "delete_infrastructure" /\ drv_status = "returned" /\ drv_return = "0"
        /\ faults = 0)
        => NothingLeft

\* C11 as amended: no step of delete_infrastructure deletes a global pool
\* or changes the controller's pools; a run to the end in which every call
\* was answered normally removes the reservations and the sites (and, by C9,
\* in the order reservations, floors, buildings, areas).
C11_TearsDownAllButPools ==
    [][drv' = "delete_infrastructure" =>
          /\ cc_pools' = cc_pools
          /\ ~DeletesPool(op_trace')
          /\ \A i \in 1..Len(history') : history'[i].call.op # "delete_global_pool"
          /\ (drv_status' = "returned" /\ drv_return' = "0" /\ faults' = 0)
                 => (cc_sites' = <<GlobalSite>> /\ cc_res' = <<>>)]_vars

\* delete_infrastructure has run to its end against the whole topology, every
\* call answered normally: sites and reservations are gone, the four pools
\* are still there.
C11_Witness ==
    /\ drv = "delete_infrastructure"
    /\ drv_status = "returned"
    /\ drv_return = "0"
    /\ faults = 0
    /\ cc_sites = <<GlobalSite>>
    /\ cc_res = <<>>
    /\ cc_pools = FullController.pools
    /\ Len(cc_pools) = 4

(***************************************************************************)
(* Properties of the creation drivers.                                     *)
(***************************************************************************)
\* The place of a creation call's kind in the order pools, areas, buildings,
\* floors, reservations; 0 for a call that creates nothing.
Phase(op) ==
    CASE op = "create_ip_pool" -> 1
      [] op = "create_area" -> 2
      [] op = "create_building" -> 3
      [] op = "create_floor" -> 4
      [] op = "reserve_ip_subpool" -> 5
      [] OTHER -> 0

\* The positions in the log of the creation calls.
Creations == {i \in 1..Len(history) : Phase(history[i].call.op) > 0}

Count(op) == Cardinality({i \in 1..Len(history) : history[i].call.op = op})

\* The creation of the site of that name was attempted before call j.
SiteAttemptedBefore(j, name) ==
    \E i \in 1..(j - 1) :
        /\ history[i].call.op \in {"create_area", "create_building"}
        /\ history[i].call.name = name

PoolAttemptedBefore(j, name) ==
    \E i \in 1..(j - 1) :
        history[i].call.op = "create_ip_pool" /\ history[i].call.name = name

\* Everything call j depends on, by its own arguments, was attempted before it.
DependenciesAttemptedBefore(j) ==
    LET c == history[j].call
    IN  IF c.op \in {"create_area", "create_building", "create_floor"}
        THEN \A k \in 1..Len(ParentsOf(c.parent_name)) :
                 ParentsOf(c.parent_name)[k] # "Global"
                    => SiteAttemptedBefore(j, ParentsOf(c.parent_name)[k])
        ELSE IF c.op = "reserve_ip_subpool"
        THEN SiteAttemptedBefore(j, c.site_name) /\ PoolAttemptedBefore(j, c.parent_pool)
        ELSE TRUE

\* C10: either creation driver makes its creation calls in the phase order
\* pools, areas, buildings, floors, reservations; a driver that has returned
\* has made 4 pool, 5 area, 4 building, 6 floor and 16 reservation creation
\* calls; and every creation call comes after the creation calls for
\* everything it depends on (the ancestors of a site, the building and the
\* pool of a reservation).
C10_CreationOrder ==
    drv \in {"create_infrastructure", "main"} =>
        /\ \A i, j \in Creations :
               i < j => Phase(history[i].call.op) <= Phase(history[j].call.op)
        /\ \A j \in Creations : DependenciesAttemptedBefore(j)
        /\ drv_status = "returned" =>
               /\ Count("create_ip_pool") = 4
               /\ Count("create_area") = 5
               /\ Count("create_building") = 4
               /\ Count("create_floor") = 6
               /\ Count("reserve_ip_subpool") = 16

\* create_infrastructure has run to its end against a controller that held
\* nothing, one call answered abnormally, and has built the whole topology
\* but for what that call was to create.
C10_Witness ==
    /\ drv = "create_infrastructure"
    /\ drv_status = "returned"
    /\ Len(history) = 35
    /\ faults = 1
    /\ history[1].ret = "verified"
    /\ history[35].ret = "result"
    /\ history[35].call.name = "DOT_BYOD"
    /\ \E k \in 1..Len(history) : history[k].ret = "None"
    /\ Len(cc_res) >= 12

\* The controller lists the resource a creation call is for: the pool of
\* that name, the site of that name under that parent, the reservation of
\* that name of that site.
ExistsOn(cc, call) ==
    CASE call.op = "create_ip_pool" -> get_global_pool_by_name(cc.pools, call.name) # None
      [] call.op \in {"create_area", "create_building", "create_floor"} ->
             ListsSite(cc.sites, call.parent_name \o <<"/", call.name>>)
      [] call.op = "reserve_ip_subpool" ->
             /\ get_site_by_name(cc.sites, call.site_name) # None
             /\ FindReservation(cc.res, SiteId(get_site_by_name(cc.sites, call.site_name)),
                                call.name) # None
      [] OTHER -> FALSE

\* A request of the trace is a POST.
Posts_Any(trace) == \E i \in 1..Len(trace) : trace[i].ev = "POST"

\* C12: a creation call of create_infrastructure for a resource the
\* controller lists, its lookup answered, makes no POST and returns the
\* listed resource.
C12_ExistingIsNotPosted ==
    [][(drv' = "create_infrastructure" /\ Len(history') = Len(history) + 1) =>
          LET e == history'[Len(history')]
          IN  (ExistsOn(Controller(cc_pools, cc_sites, cc_res), e.call) /\ e.ret # "raise")
                 => (e.ret = "existing" /\ ~Posts_Any(op_trace'))]_vars

\* C13: a call of create_infrastructure made against the controller as a
\* complete first run leaves it, and answered normally, makes lookup (GET)
\* requests only.
C13_SecondRunOnlyLooksUp ==
    [][(/\ drv' = "create_infrastructure"
        /\ Len(history') = Len(history) + 1
        /\ faults' = 0
        /\ Controller(cc_pools, cc_sites, cc_res) = FullController)
          => \A i \in 1..Len(op_trace') : op_trace'[i].ev = "GET"]_vars

(***************************************************************************)
(* SpecImplWait: one wait_for_task call of native_api_implementation.py    *)
(* with any max_attempts up to MaxAttempts, the controller answering each  *)
(* status GET in any way.                                                  *)
(***************************************************************************)
MaxAttempts == 30

\* Lines 175-183: one pass of the for loop.
ImplPoll ==
    /\ iw_pc = "loop"
    /\ iw_polls < iw_max_attempts
    /\ \E task \in ImplTasks :
         LET verdict == impl_poll(task)
         IN  /\ iw_polls' = iw_polls + 1
             /\ iw_last' = task
             /\ IF verdict = "sleep"
                THEN /\ iw_sleeps' = iw_sleeps + 1
                     /\ UNCHANGED <<iw_pc, iw_result>>
                ELSE /\ iw_pc' = "done"
                     /\ iw_result' = verdict
                     /\ UNCHANGED iw_sleeps
    /\ UNCHANGED <<iw_max_attempts, wt_vars, cc_vars, lk_vars, history, drv_vars,
                   proc_vars, tok_vars>>

\* Line 184: the for loop is exhausted.
ImplTimeout ==
    /\ iw_pc = "loop"
    /\ iw_polls >= iw_max_attempts
    /\ iw_pc' = "done"
    /\ iw_result' = "TimeoutError"
    /\ UNCHANGED <<iw_max_attempts, iw_polls, iw_sleeps, iw_last, wt_vars, cc_vars,
                   lk_vars, history, drv_vars, proc_vars, tok_vars>>

InitImplWait ==
    /\ iw_pc = "loop"
    /\ iw_max_attempts \in 0..MaxAttempts
    /\ iw_polls = 0
    /\ iw_sleeps = 0
    /\ iw_result = "pending"
    /\ iw_last = NoImplTask
    /\ wt_pc = "idle" /\ wt_timeout = 0 /\ wt_elapsed = 0 /\ wt_polls = 0
    /\ wt_sleeps = 0 /\ wt_line = 0 /\ wt_result = "pending" /\ wt_last = NoResponse
    /\ LookupIdle
    /\ cc_pools = <<>> /\ cc_sites = <<>> /\ cc_res = <<>>
    /\ DriverIdle
    /\ history = <<>>

NextImplWait == ImplPoll \/ ImplTimeout

SpecImplWait == InitImplWait /\ [][NextImplWait]_vars

\* The loop either goes on or ends: under weak fairness of its steps the
\* call does not stall between two statements.
FairImplWait == SpecImplWait /\ WF_vars(NextImplWait)

(***************************************************************************)
(* SpecAuth: a client that makes up to MaxAuthCalls calls, each an         *)
(* authenticate call answered in any way with any of MaxTokens tokens, or  *)
(* a request that sends self.headers.                                      *)
(***************************************************************************)
MaxAuthCalls == 4
MaxTokens == 3

Tokens == 1..MaxTokens

AuthAnswers ==
    {AuthAnswer("ok", t) : t \in Tokens}
    \cup {AuthAnswer(how, NoToken) : how \in {"http_error", "no_token", "exc"}}

\* Lines 184-197: one authenticate call.
AuthenticateCall ==
    /\ Len(history) < MaxAuthCalls
    /\ \E ans \in AuthAnswers :
         LET client == store_token(Client(token, header), ans)
         IN  /\ token' = client.token
             /\ header' = client.header
             /\ history' = Append(history,
                    [call |-> [op |-> "authenticate"],
                     ret |-> IF ans.how = "ok" THEN "token" ELSE "raise",
                     how |-> ans.how, token |-> ans.issued])
    /\ UNCHANGED <<wt_vars, iw_vars, cc_vars, lk_vars, drv_vars, proc_vars>>

\* Lines 201, 211, 229 and the like: a request made with headers=self.headers.
HeaderSent ==
    /\ Len(history) < MaxAuthCalls
    /\ history' = Append(history,
           [call |-> [op |-> "request"], ret |-> "sent", how |-> "ok", token |-> header])
    /\ UNCHANGED <<wt_vars, iw_vars, cc_vars, lk_vars, drv_vars, proc_vars, tok_vars>>

InitAuth ==
    /\ WaitIdle
    /\ LookupIdle
    /\ cc_pools = <<>> /\ cc_sites = <<>> /\ cc_res = <<>>
    /\ DriverIdle
    /\ history = <<>>

NextAuth == AuthenticateCall \/ HeaderSent

SpecAuth == InitAuth /\ [][NextAuth]_vars

(***************************************************************************)
(* Properties of the operations as the drivers call them (SpecMain): the   *)
(* driver's last call, how the controller answered it (op_ans) and the     *)
(* requests it made (op_trace).                                            *)
(***************************************************************************)
LastOp == IF Len(history) = 0 THEN "none" ELSE history[Len(history)].call.op
LastRet == IF Len(history) = 0 THEN "none" ELSE history[Len(history)].ret

CreateOps == {"create_ip_pool", "create_area", "create_building", "create_floor",
              "reserve_ip_subpool"}
DeleteOps == {"delete_site", "delete_reservation"}

\* A request that changes the controller.
IsMutation(e) == e.ev \in {"POST", "DELETE"} /\ e.what # "auth/token"
Mutates(trace) == \E i \in 1..Len(trace) : IsMutation(trace[i])
Awaits(trace) == \E i \in 1..Len(trace) : trace[i].ev = "wait_for_task"

\* The last call made its mutating request and the controller accepted it.
MutationAccepted ==
    /\ LastOp \in CreateOps \cup DeleteOps
    /\ Mutates(op_trace)
    /\ CASE LastOp \in CreateOps -> op_ans.http = "ok"
         [] LastOp = "delete_site" ->
                \/ op_ans.first = "ok"
                \/ op_ans.first \in {"401", "exc"} /\ op_ans.reauth # "fail"
                                                   /\ op_ans.second = "ok"
         [] LastOp = "delete_reservation" -> op_ans.del = "ok"

\* The accepted answer carries executionId, executionStatusUrl.
CarriesId == op_ans.hasId
CarriesUrl == LastOp \in CreateOps /\ op_ans.hasUrl

\* C14 as stated: whenever the answer to a mutating request carries a task
\* reference (an execution ID and/or a status URL), the operation awaits the
\* task through wait_for_task before it reports its outcome.
C14_TaskReferenceAwaited ==
    (MutationAccepted /\ (CarriesId \/ CarriesUrl)) => Awaits(op_trace)

\* C14 as the code has it: the operation awaits the task through
\* wait_for_task, right after the mutating request, exactly when the answer
\* carries an execution ID.  With a status URL alone create_ip_pool and
\* reserve_ip_subpool read the status once, and the other operations do not
\* look at the task at all.
C14_ExecutionIdAwaited ==
    MutationAccepted =>
        /\ Awaits(op_trace) <=> CarriesId
        /\ CarriesId =>
               \E i \in 1..(Len(op_trace) - 1) :
                   /\ IsMutation(op_trace[i])
                   /\ op_trace[i + 1] = WaitForTask(600)
                   /\ \A j \in (i + 2)..Len(op_trace) : ~IsMutation(op_trace[j])
        /\ (~CarriesId /\ CarriesUrl) =>
               LET polls == {i \in 1..Len(op_trace) : op_trace[i] = GetStatus}
               IN  Cardinality(polls) =
                       IF LastOp \in {"create_ip_pool", "reserve_ip_subpool"} THEN 1 ELSE 0

C14_Witness ==
    /\ MutationAccepted
    /\ LastOp = "delete_site"
    /\ op_ans.first = "401"
    /\ CarriesId
    /\ Awaits(op_trace)

\* A status URL alone, and no wait.
C14_UrlOnlyWitness ==
    MutationAccepted /\ LastOp = "create_area" /\ ~CarriesId /\ CarriesUrl /\ ~Awaits(op_trace)

\* The requests of that kind among the requests of the last call.
DeleteRequests == {i \in 1..Len(op_trace) : op_trace[i].ev = "DELETE"}
AuthRequests == {i \in 1..Len(op_trace) : op_trace[i] = PostAuth}

\* The last call made its DELETE and the controller answered it with 401.
FirstDelete401 ==
    /\ LastOp \in DeleteOps
    /\ DeleteRequests # {}
    /\ \/ LastOp = "delete_site" /\ op_ans.first = "401"
       \/ LastOp = "delete_reservation" /\ op_ans.del = "401"

\* Every deletion attempt comes right after a successful authenticate or
\* after a deletion attempt of its own phase.
AuthenticatedPhases ==
    \A i \in Deletions :
        /\ i > 1
        /\ \/ history[i - 1].call.op = "authenticate" /\ history[i - 1].ret = "token"
           \/ /\ (i - 1) \in Deletions
              /\ DeletionRank(history[i - 1].call) = DeletionRank(history[i].call)

PollerFailed == MutationAccepted /\ CarriesId /\ ~op_ans.taskOk

\* The driver has just made a call.
Called == Len(history') = Len(history) + 1

\* No request that would undo the mutating request follows it: the only
\* mutating request after it is the same request made again.
NoRollback(trace) ==
    \A i, j \in 1..Len(trace) :
        (IsMutation(trace[i]) /\ IsMutation(trace[j])) => trace[j] = trace[i]

\* The call at position pc of the deletion driver is in the floor loop.
InFloorLoop(pc) ==
    /\ drv = "delete_infrastructure"
    /\ delete_infrastructure_calls[pc].op = "delete_site"
    /\ delete_infrastructure_calls[pc].pass > 0

\* C16 as stated: when the poller reports a task failure the create or
\* delete call returns None, and the driver goes on with the very next step
\* of the run: no step is skipped and no rollback request is issued.
C16_FailureSkipsNothing ==
    [][(Called /\ PollerFailed') =>
          /\ LastRet' = "None"
          /\ NoRollback(op_trace')
          /\ drv_status' # "raised"
          /\ drv_pc' = drv_pc + 1]_vars

\* C16 as the code has it: when the poller reports a task failure the call
\* returns None and no rollback request is issued; the driver goes on with
\* the very next step, except in the floor loop of delete_infrastructure,
\* where the None ends the current pass over the floor names: the rest of
\* that pass is skipped and the driver goes on with the next pass, or with
\* the phase after the loop.
C16_FailureEndsOnlyFloorPass ==
    [][(Called /\ PollerFailed') =>
          /\ LastRet' = "None"
          /\ NoRollback(op_trace')
          /\ drv_status' # "raised"
          /\ IF InFloorLoop(drv_pc)
             THEN LET calls == delete_infrastructure_calls
                      SamePass(n) == /\ calls[n].op = "delete_site"
                                     /\ calls[n].pass = calls[drv_pc].pass
                  IN  /\ drv_pc' > drv_pc
                      /\ \A n \in (drv_pc + 1)..(drv_pc' - 1) : SamePass(n)
                      /\ ~SamePass(drv_pc')
             ELSE drv_pc' = drv_pc + 1]_vars

\* The task deleting FLOOR_1 in the first pass failed: the driver is at the
\* second pass, having skipped FLOOR_2 of the first.
C16_Witness ==
    /\ drv = "delete_infrastructure"
    /\ PollerFailed
    /\ LastRet = "None"
    /\ history[Len(history)].call = SiteDeletion("FLOOR_1", 1)
    /\ drv_status = "running"
    /\ delete_infrastructure_calls[drv_pc] = SiteDeletion("FLOOR_1", 2)

\* The task creating an area failed and create_infrastructure went on to the
\* end of the run.
C16_CreateWitness ==
    /\ drv = "create_infrastructure"
    /\ drv_status = "returned"
    /\ Len(history) = Len(create_infrastructure_calls) + 1
    /\ \E i \in 1..Len(history) :
           history[i].call.op = "create_area" /\ history[i].ret = "None"

\* The operations that test the status of their mutating request themselves
\* and those that call raise_for_status on it.
StatusTesting == {"create_floor", "delete_site", "delete_reservation"}
StatusRaising == {"create_ip_pool", "create_area", "create_building", "reserve_ip_subpool"}

\* The last call's first mutating request was answered with a status the
\* operation does not expect (for delete_site, one other than 401).
StatusRefused ==
    /\ Mutates(op_trace)
    /\ CASE LastOp \in CreateOps -> op_ans.http = "error"
         [] LastOp = "delete_site" -> op_ans.first = "error"
         [] LastOp = "delete_reservation" -> op_ans.del \in {"401", "error"}
         [] OTHER -> FALSE

\* The driver goes on after the call at drv_pc: with the very next call or,
\* in the floor loop of delete_infrastructure after a None, with the next
\* pass.
GoesOn ==
    /\ drv_status' # "raised"
    /\ IF InFloorLoop(drv_pc)
       THEN LET calls == delete_infrastructure_calls
                SamePass(n) == /\ calls[n].op = "delete_site"
                               /\ calls[n].pass = calls[drv_pc].pass
            IN  /\ drv_pc' > drv_pc
                /\ \A n \in (drv_pc + 1)..(drv_pc' - 1) : SamePass(n)
                /\ ~SamePass(drv_pc')
       ELSE drv_pc' = drv_pc + 1

\* C17 as stated: an unexpected HTTP status on the mutating request of any
\* create or delete operation is a failure of that step only: the operation
\* returns None and the driver goes on instead of aborting the run.
C17_StatusFailsStepOnly ==
    [][(Called /\ StatusRefused') =>
          /\ LastRet' = "None"
          /\ drv_status' # "raised"]_vars

\* C17 as the code has it: the controller is left unchanged; create_floor,
\* delete_site and delete_reservation return None and the driver goes on;
\* create_ip_pool, create_area, create_building and reserve_ip_subpool raise
\* the HTTPError of raise_for_status, which nothing catches: the driver makes
\* no further call and the process exits with status 1.
C17_StatusFailsStepOrRun ==
    [][/\ (Called /\ StatusRefused') =>
             /\ cc_vars' = cc_vars
             /\ IF LastOp' \in StatusTesting
                THEN LastRet' = "None" /\ GoesOn
                ELSE /\ LastOp' \in StatusRaising
                     /\ LastRet' = "raise"
                     /\ drv_status' = "raised"
       /\ drv_status = "raised" =>
             /\ history' = history
             /\ op_trace' = op_trace
             /\ proc' = "exited" /\ exit_code' = 1]_vars

\* create_area's POST was refused and the process has exited with status 1
\* after that call.
C17_Witness ==
    /\ proc = "exited"
    /\ exit_code = 1
    /\ LastOp = "create_area"
    /\ StatusRefused
    /\ LastRet = "raise"

\* create_floor's POST was refused and create_infrastructure has gone on to
\* the reservations.
C17_FloorWitness ==
    /\ drv = "create_infrastructure"
    /\ LastOp = "reserve_ip_subpool"
    /\ \E i \in 1..Len(history) :
           history[i].call.op = "create_floor" /\ history[i].ret = "None"

\* The last call was authenticate, main's or delete_infrastructure's own,
\* and it raised.
AuthenticateFailed == LastOp = "authenticate" /\ LastRet = "raise"

\* The last call was delete_site, its first DELETE was answered with 401 or
\* raised, and the re-authentication that follows failed: once, or at both
\* attempts.
RetryAuthFailedOnce ==
    /\ LastOp = "delete_site" /\ DeleteRequests # {}
    /\ op_ans.first = "401" /\ op_ans.reauth = "fail_once"
RetryAuthFailed ==
    /\ LastOp = "delete_site" /\ DeleteRequests # {}
    /\ op_ans.first \in {"401", "exc"} /\ op_ans.reauth = "fail"

\* The driver has stopped in a way that makes the process exit with 1.
Fatal(status, value) == status = "raised" \/ (status = "returned" /\ value = "1")

OnlyAuthenticated ==
    /\ \A i \in 1..Len(history) : history[i].call.op = "authenticate"
    /\ \A i \in 1..Len(op_trace) : op_trace[i] = PostAuth

\* C18 as stated: authentication failure is fatal.  When main's authenticate
\* fails the process exits with 1 and no pool, site or reservation request
\* is ever issued; when a re-authentication during delete_infrastructure
\* fails, the one before a phase or the one after a 401, no further deletion
\* is attempted and the exit code is 1.
C18_AuthFailureFatal ==
    [][/\ (proc = "start" /\ AuthenticateFailed') =>
             (proc' = "exited" /\ exit_code' = 1 /\ OnlyAuthenticated')
       /\ (Called /\ drv = "delete_infrastructure"
              /\ (AuthenticateFailed' \/ RetryAuthFailed')) =>
             Fatal(drv_status', drv_return')
       /\ Fatal(drv_status, drv_return) =>
             (history' = history /\ proc' = "exited" /\ exit_code' = 1)
       /\ proc = "exited" => vars' = vars]_vars

\* C18 as the code has it: a failure of main's authenticate, or of one of
\* delete_infrastructure's own authenticate calls, is fatal as stated.  A
\* re-authentication inside delete_site that fails once is attempted again
\* and the DELETE retried; one that fails at both attempts raises out of
\* delete_site, which is fatal in the building and area phases, while the
\* floor loop catches the exception and goes on with the next pass.
C18_DriverAuthFailureFatal ==
    [][/\ (proc = "start" /\ AuthenticateFailed') =>
             (proc' = "exited" /\ exit_code' = 1 /\ OnlyAuthenticated')
       /\ (Called /\ drv = "delete_infrastructure" /\ AuthenticateFailed') =>
             Fatal(drv_status', drv_return')
       /\ (Called /\ drv = "delete_infrastructure" /\ RetryAuthFailedOnce') =>
             (Cardinality(DeleteRequests') = 2 /\ drv_status' # "raised")
       /\ (Called /\ drv = "delete_infrastructure" /\ RetryAuthFailed') =>
             /\ LastRet' = "raise"
             /\ IF InFloorLoop(drv_pc)
                THEN drv_status' = "running" /\ drv_pc' > drv_pc
                ELSE drv_status' = "raised"
       /\ Fatal(drv_status, drv_return) =>
             (history' = history /\ proc' = "exited" /\ exit_code' = 1)
       /\ proc = "exited" => vars' = vars]_vars

\* The authenticate call before the building phase failed after deletions
\* had been attempted: it is the last call, and the process has exited with 1.
C18_Witness ==
    /\ drv = "delete_infrastructure"
    /\ AuthenticateFailed
    /\ \E i \in Deletions : DeletionRank(history[i].call) = 2
    /\ proc = "exited"
    /\ exit_code = 1

\* Main's authenticate failed: nothing but the token request was made.
C18_InitialWitness ==
    drv = "none" /\ AuthenticateFailed /\ proc = "exited" /\ exit_code = 1 /\ OnlyAuthenticated

\* The re-authentication inside the deletion of a floor failed twice and the
\* run went on to exit with 0.
C18_FloorWitness ==
    /\ proc = "exited"
    /\ exit_code = 0
    /\ faults = 1
    /\ \E i \in Deletions : DeletionRank(history[i].call) = 2 /\ history[i].ret = "raise"
    /\ \E i \in Deletions : DeletionRank(history[i].call) = 4

(***************************************************************************)
(* The exit status (SpecMain).                                             *)
(***************************************************************************)
\* main returned before authenticating: the credentials could not be loaded.
ConfigFailed == proc = "exited" /\ Len(history) = 0

\* The user did not type DELETE at the confirmation prompt, or interrupted it.
Cancelled == drv = "delete_infrastructure" /\ LastOp = "input" /\ LastRet # "DELETE"

\* A step of the action failed: a create call returned None, or a create or
\* delete call raised.
StepFailed ==
    \E i \in 1..Len(history) :
        \/ history[i].call.op \in CreateOps /\ history[i].ret \in {"None", "raise"}
        \/ history[i].call.op \in DeleteOps /\ history[i].ret = "raise"

\* C19 as stated: the exit code is 1 when the credentials could not be
\* loaded, the authentication failed, steps of the action failed or the user
\* cancelled, and 0 otherwise.
C19_ExitCodeTellsSuccess ==
    proc = "exited" =>
        /\ exit_code \in {0, 1}
        /\ exit_code = 1 <=> (ConfigFailed \/ AuthenticateFailed \/ Cancelled \/ StepFailed)

\* C19 as the code has it: the exit code is 1 when the credentials could not
\* be loaded, an authenticate call of main or of delete_infrastructure
\* failed, the user cancelled, or an exception left the driver; it is 0
\* otherwise, whatever the steps of the action returned.
C19_ExitCodeTellsCompletion ==
    proc = "exited" =>
        /\ exit_code \in {0, 1}
        /\ exit_code = 1 <=>
               (ConfigFailed \/ AuthenticateFailed \/ Cancelled \/ drv_status = "raised")
        /\ drv_status = "raised" => LastRet = "raise"

\* create_floor returned None for a refused POST, create_infrastructure went
\* on to its end, and the process has exited with 0.
C19_Witness ==
    /\ proc = "exited"
    /\ exit_code = 0
    /\ drv = "create_infrastructure"
    /\ \E i \in 1..Len(history) :
           history[i].call.op = "create_floor" /\ history[i].ret = "None"

\* The user cancelled the deletion.
C19_CancelWitness == proc = "exited" /\ exit_code = 1 /\ Cancelled

(***************************************************************************)
(* The status action (SpecMain).                                           *)
(***************************************************************************)
\* C20: the status action is read-only: check_infrastructure issues only GET
\* requests, leaves the controller as it was and returns 0, so that the
\* process exits with 0, even when a listing fails.
C20_StatusReadOnly ==
    [][drv = "check_infrastructure" =>
          /\ cc_vars' = cc_vars
          /\ Called =>
                /\ LastOp' = "check_infrastructure"
                /\ Len(op_trace') >= 3
                /\ \A i \in 1..Len(op_trace') : op_trace'[i].ev = "GET"
                /\ drv_status' = "returned"
                /\ drv_return' = "0"
          /\ proc' = "exited" => exit_code' = 0]_vars

\* The status action ran against the whole topology; the pool listing and a
\* site listing failed, the buildings' reservations were listed, and the
\* process has exited with 0.
C20_Witness ==
    /\ proc = "exited"
    /\ exit_code = 0
    /\ LastOp = "check_infrastructure"
    /\ op_ans.pools = "fail"
    /\ op_ans.sites = "fail"
    /\ Len(op_trace) = 3 + Len(Buildings)
    /\ Controller(cc_pools, cc_sites, cc_res) = FullController

(***************************************************************************)
(* The request payloads (SpecCreate).                                      *)
(***************************************************************************)
\* The requests of the last call that post a pool, a reservation.
PoolPosts == {i \in 1..Len(op_trace) : op_trace[i].ev = "POST" /\ op_trace[i].what = "global-pool"}
ReservePosts ==
    {i \in 1..Len(op_trace) : op_trace[i].ev = "POST" /\ op_trace[i].what = "reserve-ip-subpool"}

\* The arguments of the driver's last call.
LastCall == history[Len(history)].call

\* The text "a.b.c.d" has four parts, and the gateway is "a.b.c.1".
GatewayOf(subnet) ==
    LET octets == Split(subnet, ".")
    IN  octets[1] \o <<".">> \o octets[2] \o <<".">> \o octets[3] \o <<".", "1">>

\* C21: create_ip_pool posts the CIDR's text before the "/" as the subnet
\* and the number after it as the integer prefix length (US_CORP,
\* 10.201.0.0/16: subnet 10.201.0.0 and prefixLength 16); reserve_ip_subpool
\* and reserve_ip_pool post as gateway the subnet's first three octets
\* followed by ".1" (ST_CORP, 10.201.2.0: gateway 10.201.2.1).
C21_PayloadFields ==
    /\ (drv = "create_infrastructure" /\ LastOp = "create_ip_pool") =>
           \A i \in PoolPosts :
               LET space == op_trace[i].payload.addressSpace
               IN  /\ space.subnet \o <<"/">> \o str(space.prefixLength) = LastCall.cidr
                   /\ \A k \in 1..Len(space.subnet) : space.subnet[k] # "/"
                   /\ space.prefixLength = 16
                   /\ LastCall.name = "US_CORP" =>
                          space.subnet = Dotted("10", "201", "0", "0")
    /\ LastOp = "reserve_ip_subpool" =>
           \A i \in ReservePosts :
               LET payload == op_trace[i].payload
               IN  /\ payload.ipv4Subnet = LastCall.subnet
                   /\ payload.ipv4GateWay = GatewayOf(LastCall.subnet)
                   /\ LastCall.name = "ST_CORP" =>
                          /\ payload.ipv4Subnet = Dotted("10", "201", "2", "0")
                          /\ payload.ipv4GateWay = Dotted("10", "201", "2", "1")

\* create_infrastructure has posted US_CORP.
C21_Witness ==
    /\ drv = "create_infrastructure"
    /\ LastOp = "create_ip_pool"
    /\ LastCall.name = "US_CORP"
    /\ PoolPosts # {}
    /\ \A i \in PoolPosts :
           op_trace[i].payload.addressSpace =
               [subnet |-> Dotted("10", "201", "0", "0"), prefixLength |-> 16]

\* Either driver has posted the reservation ST_CORP.
C21_ReservationWitness ==
    /\ LastOp = "reserve_ip_subpool"
    /\ LastCall.name = "ST_CORP"
    /\ \E i \in ReservePosts : op_trace[i].payload.ipv4GateWay = Dotted("10", "201", "2", "1")

(***************************************************************************)
(* The precedence of the poller's rules (Spec).                            *)
(***************************************************************************)
\* The first matching rule, in the order stated, given which nested statuses
\* count as false and which values of an end-time field count as an end time.
RuleVerdict(b, false_values, IsEndTime(_)) ==
    CASE b.status = "SUCCESS" /\ Truthy(b.bapiError) -> "failure"
      [] b.status = "SUCCESS" /\ b.sync \in false_values -> "failure"
      [] b.status = "SUCCESS" -> "success"
      [] b.status \in {"FAILURE", "FAILED"} -> "failure"
      [] Truthy(b.isError) -> "failure"
      [] IsEndTime(b.endTime) \/ IsEndTime(b.endTimeEpoch) -> "success"
      [] OTHER -> "non-terminal"

\* What wait_for_task did with its last answer.
Decided ==
    IF wt_pc = "return" /\ wt_line # 182
    THEN IF wt_result = "True" THEN "success" ELSE "failure"
    ELSE "non-terminal"

IsPresent(v) == v # Absent

\* C22 as stated: a 200 answer is decided by the first matching rule, the
\* nested status counting as false when it is "false" or false, and an
\* end-time field counting when it is present.
C22_RulesAsStated ==
    (wt_polls > 0 /\ Is200(wt_last)) =>
        Decided = RuleVerdict(wt_last.body, {"false", JFalse}, IsPresent)

\* C22 as the code has it: the same rules in the same order, the nested
\* status counting as false when it is "false" or compares equal to False in
\* Python (false, and the number 0), and an end-time field counting when it is
\* truthy (present and not null, 0 or empty).  A non-terminal answer is
\* followed by one sleep, so that the polls and the sleeps stay level.
C22_RulesInOrder ==
    (wt_polls > 0 /\ Is200(wt_last)) =>
        /\ Decided = RuleVerdict(wt_last.body, {"false", JFalse, JZero}, Truthy)
        /\ Decided = "non-terminal" => wt_sleeps = wt_polls
        /\ (wt_last.body.status = "SUCCESS" /\ ~Truthy(wt_last.body.bapiError)
               /\ wt_last.body.sync \notin {"false", JFalse, JZero})
              => Decided = "success"

\* status SUCCESS without embedded error and with isError set: success.
C22_Witness ==
    /\ wt_pc = "return"
    /\ wt_result = "True"
    /\ wt_line = 138
    /\ Is200(wt_last)
    /\ wt_last.body.status = "SUCCESS"
    /\ wt_last.body.bapiError = Absent
    /\ wt_last.body.sync = "true"
    /\ wt_last.body.isError = JTrue

\* A nested status of 0 under SUCCESS: failure.
C22_ZeroWitness ==
    /\ wt_pc = "return" /\ wt_result = "False" /\ wt_line = 136
    /\ wt_last.body.sync = JZero /\ wt_last.body.bapiError = Absent

(***************************************************************************)
(* The verification of a created pool (SpecPool).                          *)
(***************************************************************************)
\* The pools the controller lists after call i of the sequence.
PoolsAfter(i) == IF i = Len(history) THEN cc_pools ELSE history[i + 1].before

\* Call i posted the pool, the answer carried a task reference and the task
\* was reported successful.
TaskSucceeded(i) ==
    /\ Posts(history[i].trace) = 1
    /\ history[i].ans.http = "ok"
    /\ history[i].ans.hasId \/ history[i].ans.hasUrl
    /\ history[i].ans.taskOk

\* C23: when the answer to the pool's POST carries a task reference and the
\* task is reported successful, create_ip_pool sleeps a fixed time (5 s
\* after wait_for_task, 3 s after the single status read), lists the pools
\* again as its last request, and returns the pool of that name if the
\* controller lists it, None if it does not.
C23_CreatedPoolVerified ==
    \A i \in 1..Len(history) :
        TaskSucceeded(i) =>
            LET e == history[i]
                n == Len(e.trace)
                found == get_global_pool_by_name(PoolsAfter(i), e.call.name)
            IN  /\ e.trace[n] = GetPools
                /\ e.trace[n - 1] = IF e.ans.hasId THEN Sleep(5) ELSE Sleep(3)
                /\ IF found = None
                   THEN e.ret = Ret("None", None)
                   ELSE e.ret.kind = "verified" /\ e.ret.obj = found

\* The task creating US_CORP was reported successful, the controller does
\* not list the pool, and the call returned None.
C23_Witness ==
    /\ Len(history) >= 1
    /\ TaskSucceeded(1)
    /\ history[1].ans.hasId
    /\ ~history[1].ans.applied
    /\ get_global_pool_by_name(PoolsAfter(1), history[1].call.name) = None
    /\ history[1].ret = Ret("None", None)

(***************************************************************************)
(* The poller's timeout (SpecMain).                                        *)
(***************************************************************************)
\* The timeouts wait_for_task is called with in a sequence of requests.
WaitTimeouts(trace) == {trace[i].t : i \in {j \in 1..Len(trace) : trace[j].ev = "wait_for_task"}}

\* The timeouts of delete_global_pool, which no driver calls, for every
\* answer of the controller.
PoolDeletionTimeouts ==
    UNION {WaitTimeouts(delete_global_pool(FullController, PoolArgs[1].name, ans).trace) :
               ans \in ReservationDeleteAnswers}

\* C24 as stated: the poller's timeout is 600 s for pool and reservation
\* creation and strictly shorter for every other operation that awaits a
\* task.
C24_ShorterElsewhere ==
    \A t \in WaitTimeouts(op_trace) :
        IF LastOp \in {"create_ip_pool", "reserve_ip_subpool"} THEN t = 600 ELSE t < 600

\* C24 as the code has it: the poller's timeout is 600 s in every operation
\* that awaits a task: pool and reservation creation pass it, the others
\* leave it to the parameter's default, which is 600 too.
C24_TimeoutAlways600 ==
    /\ \A t \in WaitTimeouts(op_trace) : t = 600
    /\ PoolDeletionTimeouts = {600}

\* delete_site awaited its task with the default timeout.
C24_Witness ==
    /\ LastOp = "delete_site"
    /\ WaitTimeouts(op_trace) = {600}

(***************************************************************************)
(* Deleting what the controller does not list (SpecDelete).                *)
(***************************************************************************)
\* The controller, reachable and listing normally, does not list what the
\* deletion call names.
NotListed(call, ans) ==
    /\ ans.net = "up"
    /\ CASE call.op = "delete_site" -> get_site_by_name(cc_sites, call.name) = None
         [] call.op = "delete_reservation" ->
                LET site == get_site_by_name(cc_sites, call.site_name)
                IN  \/ site = None
                    \/ /\ ans.list = "ok"
                       /\ FindReservation(cc_res, SiteId(site), call.name) = None
         [] OTHER -> FALSE

\* delete_global_pool, which no driver calls, for a pool that is not listed.
PoolNotListedOutcomes ==
    {delete_global_pool(EmptyController, PoolArgs[1].name, ans) :
         ans \in {a \in ReservationDeleteAnswers : a.net = "up"}}

\* C25: delete_site, delete_reservation and delete_global_pool called for a
\* site, reservation or pool that the controller does not list issue no
\* DELETE, raise nothing and return None, and the driver goes on.
C25_NotFoundIsNothingToDo ==
    [][/\ (Called /\ LastOp' \in DeleteOps /\ NotListed(LastCall', op_ans')) =>
             /\ \A i \in 1..Len(op_trace') : op_trace'[i].ev = "GET"
             /\ LastRet' = "None"
             /\ cc_vars' = cc_vars
             /\ drv_status' # "raised"
             /\ drv_pc' > drv_pc
       /\ PoolNotListedOutcomes = {Outcome(Ret("None", None), <<GetPools>>, EmptyController)}]_vars

\* In a run against the whole topology with every answer normal, a floor
\* name had no floor left, delete_site returned None after its lookup, and
\* the run went on to the buildings.
C25_Witness ==
    /\ drv = "delete_infrastructure"
    /\ faults = 0
    /\ cc_pools # <<>>
    /\ \E i \in Deletions :
           /\ DeletionRank(history[i].call) = 2
           /\ history[i].ret = "None"
    /\ \E i \in Deletions : DeletionRank(history[i].call) = 3

(***************************************************************************)
(* C26: delete_infrastructure sends no DELETE request and does not         *)
(* re-authenticate unless the line typed at the prompt is exactly DELETE;  *)
(* on any other line, on end of input or on an interrupt it returns 1 and  *)
(* leaves the controller, the token and the header as they were.           *)
(***************************************************************************)
\* The prompt has been answered with DELETE.
ConfirmedBefore ==
    \E i \in 1..Len(history) :
        history[i].call.op = "input" /\ history[i].ret = "DELETE"

\* The driver delete_infrastructure makes a call in this step.
DriverCalls ==
    /\ drv = "delete_infrastructure"
    /\ drv_status = "running"
    /\ Len(history') = Len(history) + 1

C26_Step ==
    DriverCalls =>
        /\ (\E i \in 1..Len(op_trace') : op_trace'[i].ev = "DELETE" \/ op_trace'[i] = PostAuth)
               => ConfirmedBefore
        /\ (LastOp' = "input" /\ LastRet' # "DELETE")
               => /\ drv_status' = "returned"
                  /\ drv_return' = "1"
                  /\ op_trace' = <<>>
                  /\ UNCHANGED <<cc_vars, tok_vars>>

C26_NothingWithoutConfirmation == [][C26_Step]_vars

\* The prompt was answered with something else than DELETE, and the driver
\* returned 1 from a controller that holds the topology, with the token of
\* the first authentication.
C26_Witness ==
    /\ Cancelled
    /\ LastRet \in {"delete", "DELETE ", "", "EOFError", "KeyboardInterrupt"}
    /\ drv_status = "returned"
    /\ drv_return = "1"
    /\ Controller(cc_pools, cc_sites, cc_res) = FullController
    /\ Authenticated

\* The prompt was answered with DELETE and a site was deleted.
C26_ConfirmedWitness ==
    /\ ConfirmedBefore
    /\ LastOp = "delete_site"
    /\ DeleteRequests # {}
    /\ Len(cc_sites) < Len(FullController.sites)

(***************************************************************************)
(* C27: after any sequence of authenticate calls the X-Auth-Token header   *)
(* sent with a request equals the stored token, which is the token of the  *)
(* most recent successful authentication; an authenticate call that fails  *)
(* leaves the stored token and the header as they were (SpecAuth).         *)
(***************************************************************************)
\* The token of the last successful authentication among the first n calls,
\* NoToken when there is none.
RECURSIVE LatestToken(_)
LatestToken(n) ==
    IF n = 0 THEN NoToken
    ELSE IF history[n].call.op = "authenticate" /\ history[n].ret = "token"
    THEN history[n].token
    ELSE LatestToken(n - 1)

C27_TokenIsLatestIssued ==
    /\ token = LatestToken(Len(history))
    /\ header = token
    /\ \A i \in 1..Len(history) :
           history[i].call.op = "request" => history[i].token = LatestToken(i - 1)

\* A second token replaced the first, a later authentication failed with an
\* HTTP error, and the request after it carried the second token.
C27_Witness ==
    /\ Len(history) = 4
    /\ history[1].how = "ok" /\ history[1].token = 1
    /\ history[2].how = "ok" /\ history[2].token = 2
    /\ history[3].how = "http_error"
    /\ history[4].call.op = "request" /\ history[4].token = 2
    /\ token = 2 /\ header = 2

(***************************************************************************)
(* C28: when the controller holds the six floors of the topology (four     *)
(* FLOOR_1, two FLOOR_2) and every delete_site call succeeds and removes   *)
(* the floor it looked up, the six passes of the floor loop delete all six *)
(* floors: none is left when the first building deletion is attempted      *)
(* (SpecDelete).                                                           *)
(***************************************************************************)
FloorNames == {"FLOOR_1", "FLOOR_2"}
FloorsListed == {i \in 1..Len(cc_sites) : cc_sites[i].name \in FloorNames}

\* The position of the first building deletion among the driver's calls.
FirstBuildingDeletion ==
    CHOOSE n \in 1..Len(delete_infrastructure_calls) :
        /\ delete_infrastructure_calls[n].op = "delete_site"
        /\ delete_infrastructure_calls[n].pass = 0
        /\ \A m \in 1..(n - 1) :
               delete_infrastructure_calls[m].op = "delete_site"
                   => delete_infrastructure_calls[m].pass > 0

\* The floor deletions made so far, by result.
FloorCalls(ret) ==
    {i \in 1..Len(history) :
        /\ history[i].call.op = "delete_site"
        /\ history[i].call.pass > 0
        /\ history[i].ret = ret}

\* The driver is about to delete the first building and every call so far
\* was answered normally.
AtFirstBuilding ==
    /\ drv = "delete_infrastructure"
    /\ drv_status = "running"
    /\ drv_pc = FirstBuildingDeletion
    /\ faults = 0

C28_FloorLoopDeletesAllFloors == AtFirstBuilding => FloorsListed = {}

\* The loop found six floors to delete, and four lookups found none: the
\* FLOOR_2 of passes 3 and 4 and the FLOOR_1 of passes 5 and 6.
C28_Witness ==
    /\ AtFirstBuilding
    /\ Cardinality(FloorCalls("result")) = 6
    /\ Cardinality(FloorCalls("None")) = 4
    /\ FloorsListed = {}
    /\ \E i \in 1..Len(cc_sites) : cc_sites[i].name = "Sunset Tower"

(***************************************************************************)
(* C29: reserve_ip_subpool does not post the reservation when the          *)
(* controller lists no site or no global pool of the name given: it        *)
(* returns None; and a reservation it posts names, as ipv4GlobalPool, the  *)
(* CIDR of the pool of that name that the controller lists (SpecCreate).   *)
(***************************************************************************)
\* The sites and the pools the controller lists under the names of the last
\* call.  A reservation call changes neither listing.
SitesNamed == {i \in 1..Len(cc_sites) : cc_sites[i].name = LastCall.site_name}
PoolsNamed == {i \in 1..Len(cc_pools) : cc_pools[i].ipPoolName = LastCall.parent_pool}

\* The last call was a reservation whose lookups were answered.
ReserveLookedUp ==
    /\ drv = "create_infrastructure"
    /\ LastOp = "reserve_ip_subpool"
    /\ op_ans.net = "up"

C29_SiteWitness ==
    /\ ReserveLookedUp
    /\ SitesNamed = {}
    /\ PoolsNamed # {}
    /\ op_trace = <<GetSites, GetSites>>
    /\ LastRet = "None"

\* A reservation posted from US_CORP names 10.201.0.0/16.
C29_PostWitness ==
    /\ ReserveLookedUp
    /\ LastCall.parent_pool = "US_CORP"
    /\ \E i \in ReservePosts :
           op_trace[i].payload.ipv4GlobalPool = Cidr(Dotted("10", "201", "0", "0"), <<"1", "6">>)

(***************************************************************************)
(* C30: wait_for_task of native_api_implementation.py ends after at most   *)
(* max_attempts status polls (SpecImplWait, FairImplWait).                 *)
(***************************************************************************)
\* The last poll was answered with a task.
TaskPolled == iw_polls > 0 /\ iw_last.get = "ok" /\ iw_last.response = "dict"

ImplDone(result) == iw_pc = "done" /\ iw_result = result

\* Every poll before the last one left the task pending.
FirstDecidingPoll ==
    iw_sleeps = IF iw_pc = "loop" \/ ImplDone("TimeoutError") THEN iw_polls ELSE iw_polls - 1

\* C30 as stated: the call raises an exception at the first poll whose task
\* reports isError, returns the task at the first poll that has an endTime
\* and no error, and raises TimeoutError when max_attempts polls brought
\* neither.
C30_ThreeOutcomes ==
    /\ iw_polls <= iw_max_attempts
    /\ TaskPolled =>
           IF Truthy(iw_last.isError) THEN ImplDone("Exception")
           ELSE IF Truthy(iw_last.endTime) THEN ImplDone("task")
           ELSE /\ iw_pc = "loop" \/ ImplDone("TimeoutError")
                /\ iw_sleeps = iw_polls
    /\ ImplDone("TimeoutError") => iw_polls = iw_max_attempts

\* C30, corrected: the call makes at most max_attempts polls and ends at the
\* first poll that does not leave the task pending: with KeyError when the
\* task has no isError field, with an exception when isError is true, with
\* the task when isError is false and endTime is set; it raises TimeoutError
\* only after max_attempts polls that all left the task pending, and it
\* returns nothing but a task that has ended without error.
C30_Outcome ==
    /\ iw_polls <= iw_max_attempts
    /\ iw_pc \in {"loop", "done"}
    /\ TaskPolled =>
           IF iw_last.isError = Absent THEN ImplDone("KeyError")
           ELSE IF Truthy(iw_last.isError) THEN ImplDone("Exception")
           ELSE IF Truthy(iw_last.endTime) THEN ImplDone("task")
           ELSE /\ iw_pc = "loop" \/ ImplDone("TimeoutError")
                /\ iw_sleeps = iw_polls
    /\ (iw_polls > 0 /\ ~TaskPolled) =>
           \/ ImplDone("RequestException") /\ iw_last.get = "exc"
           \/ ImplDone("KeyError") /\ iw_last.response = Absent
           \/ ImplDone("TypeError") /\ iw_last.response = NotDict
    /\ FirstDecidingPoll
    /\ ImplDone("TimeoutError") =>
           iw_polls = iw_max_attempts /\ iw_sleeps = iw_max_attempts
    /\ ImplDone("task") => TaskPolled /\ Truthy(iw_last.endTime) /\ iw_last.isError = JFalse

C30_EndsWithinMaxAttempts == []C30_Outcome /\ <>(iw_pc = "done")

\* The third poll of a call was answered with a task that has an end time
\* and no isError field: the call raised KeyError.
C30_Witness ==
    /\ ImplDone("KeyError")
    /\ TaskPolled
    /\ iw_last.isError = Absent
    /\ Truthy(iw_last.endTime)
    /\ iw_polls = 3
    /\ iw_sleeps = 2

\* The default 30 polls all left the task pending: TimeoutError.
C30_TimeoutWitness ==
    /\ ImplDone("TimeoutError")
    /\ iw_max_attempts = default_max_attempts
    /\ iw_polls = 30
    /\ iw_sleeps = 30

\* The task ended at the last poll allowed.
C30_TaskWitness ==
    /\ ImplDone("task")
    /\ iw_max_attempts = default_max_attempts
    /\ iw_polls = 30
    /\ iw_sleeps = 29

====
